---------------------------- MODULE Spec2Model ----------------------------
(***************************************************************************)
(* Model of the caching reverse proxy (src/src/proxy.rs and                *)
(* src/src/proxy/on_request.rs): the per-request middleware pipeline, the  *)
(* cache engine on top of the key-value store, the origin dispatch with    *)
(* its stale fallback, and the config reload task.                         *)
(*                                                                         *)
(* Strings are sequences of one-character strings, so that prefix          *)
(* matching, trimming and URI composition are computed as the code does.   *)
(* An absent optional string (no scheme, no authority, no query, no        *)
(* header) is the empty sequence.                                          *)
(***************************************************************************)
EXTENDS Integers, Sequences, FiniteSets, TLC

\* ------------------------------------------------------------------------
\* Bounds of the model
\* ------------------------------------------------------------------------

\* The clock takes the values 0..MaxTime.
MaxTime == 2

\* At most MaxSignals reload signals wait in the reload channel.
MaxSignals == 1

\* The runs that count them follow a request up to MaxSends sends to the
\* origin.
MaxSends == 2

\* The runs that count them follow the reload channel up to MaxPublished
\* published signals.
MaxPublished == 3

\* ------------------------------------------------------------------------
\* Strings
\* ------------------------------------------------------------------------

\* str::starts_with
StartsWith(s, p) ==
    /\ Len(p) <= Len(s)
    /\ SubSeq(s, 1, Len(p)) = p

\* the string without its first n characters
DropChars(s, n) == SubSeq(s, n + 1, Len(s))

\* str::trim_start_matches: the prefix is removed as long as the string
\* starts with it (repeatedly, not once).
RECURSIVE TrimStartMatches(_, _)
TrimStartMatches(s, p) ==
    IF Len(p) > 0 /\ StartsWith(s, p)
    THEN TrimStartMatches(DropChars(s, Len(p)), p)
    ELSE s

\* index of the first occurrence of character c in s, 0 if there is none
IndexOf(s, c) ==
    IF \E i \in 1..Len(s) : s[i] = c
    THEN CHOOSE i \in 1..Len(s) : s[i] = c /\ \A j \in 1..(i - 1) : s[j] # c
    ELSE 0

\* index of the first character of s that is in the set cs, 0 if none
IndexOfAny(s, cs) ==
    IF \E i \in 1..Len(s) : s[i] \in cs
    THEN CHOOSE i \in 1..Len(s) : s[i] \in cs /\ \A j \in 1..(i - 1) : s[j] \notin cs
    ELSE 0

\* str::ends_with
EndsWith(s, p) ==
    /\ Len(p) <= Len(s)
    /\ SubSeq(s, Len(s) - Len(p) + 1, Len(s)) = p

\* number of occurrences of character c in s
CountChar(s, c) == Cardinality({i \in 1..Len(s) : s[i] = c})

\* ------------------------------------------------------------------------
\* http::Uri
\* ------------------------------------------------------------------------

\* A Uri is [scheme, authority, path, query]; path holds the stored path
\* data, UriPath is the accessor Uri::path().
MkUri(scheme, authority, path, query) ==
    [scheme |-> scheme, authority |-> authority, path |-> path, query |-> query]

\* Uri::path() that leaves an empty path empty
UriPath_Raw(u) == u.path

\* Uri::path(): "/" stands for an empty path of a URI that has a scheme.
UriPath(u) ==
    IF u.path = <<>> /\ u.scheme # <<>> THEN <<"/">> ELSE u.path

\* Uri::host(): the authority without its port.
UriHost(u) ==
    LET i == IndexOf(u.authority, ":")
    IN  IF i = 0 THEN u.authority ELSE SubSeq(u.authority, 1, i - 1)

\* impl Display for Uri, as used by format!("{}{}", route.to, ..)
UriDisplay(u) ==
    (IF u.scheme # <<>> THEN u.scheme \o <<":", "/", "/">> ELSE <<>>)
    \o u.authority
    \o UriPath(u)
    \o (IF u.query # <<>> THEN <<"?">> \o u.query ELSE <<>>)

\* the result of a failed str::parse::<Uri>()
InvalidUri == [invalid |-> TRUE]

\* path and query of a URI from the text that follows its authority
PathAndQuery(scheme, authority, rest) ==
    LET q == IndexOf(rest, "?")
    IN  IF q = 0
        THEN MkUri(scheme, authority, rest, <<>>)
        ELSE MkUri(scheme, authority, SubSeq(rest, 1, q - 1), DropChars(rest, q))

\* position of "://" in s, 0 if there is none
SchemeEnd(s) ==
    IF \E i \in 1..(Len(s) - 2) : SubSeq(s, i, i + 2) = <<":", "/", "/">>
    THEN CHOOSE i \in 1..(Len(s) - 2) :
            /\ SubSeq(s, i, i + 2) = <<":", "/", "/">>
            /\ \A j \in 1..(i - 1) : SubSeq(s, j, j + 2) # <<":", "/", "/">>
    ELSE 0

\* str::parse::<Uri>(): origin form ("/path?query"), absolute form
\* ("scheme://authority/path?query") or authority form ("host:port"); an
\* empty string, a scheme without authority, and an authority followed by a
\* path without a scheme do not parse.
ParseUri(s) ==
    IF s = <<>> THEN InvalidUri
    ELSE IF s[1] = "/" THEN PathAndQuery(<<>>, <<>>, s)
    ELSE
        LET e    == SchemeEnd(s)
            sch  == IF e = 0 THEN <<>> ELSE SubSeq(s, 1, e - 1)
            rest == IF e = 0 THEN s ELSE DropChars(s, e + 2)
            a    == IndexOfAny(rest, {"/", "?"})
            auth == IF a = 0 THEN rest ELSE SubSeq(rest, 1, a - 1)
            tail == IF a = 0 THEN <<>> ELSE DropChars(rest, a - 1)
        IN  IF auth = <<>> THEN InvalidUri
            ELSE IF CountChar(auth, ":") > 1 THEN InvalidUri
            ELSE IF sch = <<>> /\ tail # <<>> THEN InvalidUri
            ELSE PathAndQuery(sch, auth, tail)

\* ------------------------------------------------------------------------
\* Options and header values
\* ------------------------------------------------------------------------

None == [some |-> FALSE]
Some(v) == [some |-> TRUE, v |-> v]

\* A header value is a sequence of bytes. The byte "0xFF" is in no UTF-8
\* text; the bytes "0xC3", "0xA9" are the UTF-8 encoding of one character
\* that is not ASCII.
NonAsciiBytes == {"0xFF", "0xC3", "0xA9"}

\* HeaderValue::to_str(): fails on a value that holds a byte that is not
\* visible ASCII.
ToStr(value) ==
    IF \A i \in 1..Len(value) : value[i] \notin NonAsciiBytes THEN Some(value) ELSE None

\* ------------------------------------------------------------------------
\* Validations (src/src/proxy/validations.rs)
\* ------------------------------------------------------------------------

ManifestJson == <<"/", "m", "a", "n", "i", "f", "e", "s", "t", ".", "j", "s", "o", "n">>
PublicPrefix == <<"/", "p", "u", "b", "l", "i", "c">>
ImagesPrefix == <<"/", "i", "m", "a", "g", "e", "s">>
DotJson == <<".", "j", "s", "o", "n">>

\* the segments of s between slashes are all non-empty
RECURSIVE SegmentsNonEmpty(_)
SegmentsNonEmpty(s) ==
    LET i == IndexOf(s, "/")
    IN  IF i = 0 THEN s # <<>>
        ELSE i > 1 /\ SegmentsNonEmpty(DropChars(s, i))

\* ResourceRef::from_str of the addon protocol: "/type/id/extra" with three
\* non-empty slash-delimited segments, optionally followed by ".json".
ResourceRefFromStr(path) ==
    LET body == IF EndsWith(path, DotJson)
                THEN SubSeq(path, 1, Len(path) - Len(DotJson))
                ELSE path
    IN  /\ StartsWith(body, <<"/">>)
        /\ CountChar(body, "/") = 3
        /\ SegmentsNonEmpty(DropChars(body, 1))

\* validate_request
validate_request(path) ==
    IF path = ManifestJson \/ path = <<"/">> \/ path = <<>> THEN TRUE
    ELSE IF StartsWith(path, PublicPrefix) THEN TRUE
    ELSE IF StartsWith(path, ImagesPrefix) THEN TRUE
    ELSE ResourceRefFromStr(path)

\* is_success that takes the redirections for successes
IsSuccess_Redirection(status) == 200 <= status /\ status < 400

\* StatusCode::is_success
IsSuccess(status) == 200 <= status /\ status <= 299

\* validate_response that accepts every status
validate_response_Any(response) == response.status >= 100

\* validate_response
validate_response(response) == IsSuccess(response.status)

\* ------------------------------------------------------------------------
\* Configuration snapshots (src/src/proxy/config.rs)
\* ------------------------------------------------------------------------

HttpScheme == <<"h", "t", "t", "p">>

\* the origin's base URI http://h
ToOrigin == MkUri(HttpScheme, <<"h">>, <<>>, <<>>)

\* a route target without scheme and authority
ToNoHost == MkUri(<<>>, <<>>, <<"/", "q">>, <<>>)

ProxyRoute(from, to, validate) == [from |-> from, to |-> to, validate |-> validate]

\* The routes of the configuration file. The proxy is reached as host "p"
\* or host "e".
Routes == <<
    ProxyRoute(<<"p", "/", "o">>, ToOrigin, None),
    ProxyRoute(<<"e">>, ToOrigin, None),
    ProxyRoute(<<"p", "/", "n">>, ToOrigin, Some(FALSE)),
    ProxyRoute(<<"p", "/", "s">>, ToOrigin, Some(TRUE)),
    ProxyRoute(<<"p", "/", "w">>, ToNoHost, None) >>

ProxyConfig(cache_enabled, validity, threshold) ==
    [ reload_config_url_path        |-> <<"/", "r">>,
      clear_cache_url_path          |-> <<"/", "c">>,
      status_url_path               |-> <<"/", "s">>,
      cache_enabled                 |-> cache_enabled,
      default_cache_validity        |-> validity,
      cache_stale_threshold_on_fail |-> threshold,
      routes                        |-> Routes ]

\* The contents the configuration file takes: caching on or off.
CfgCache == ProxyConfig(TRUE, 0, 1)
CfgNoCache == ProxyConfig(FALSE, 0, 1)
Configs == {CfgCache, CfgNoCache}

\* ------------------------------------------------------------------------
\* Inbound requests
\* ------------------------------------------------------------------------

Request(method, uri, host, other, body) ==
    [method |-> method, uri |-> uri,
     headers |-> [host |-> host, other |-> other], body |-> body]

\* an inbound request in origin form with a Host header
Get(host, path) == Request("GET", MkUri(<<>>, <<>>, path, <<>>), host, "x", "")

ResourcePath == <<"/", "a", "/", "b", "/", "c", ".", "j", "s", "o", "n">>

\* the request for the resource /a/b/c.json of the origin
GetResource == Get(<<"p">>, <<"/", "o">> \o ResourcePath)

\* The requests of the runs with concurrent request tasks.
CoreRequests == {
    Get(<<"p">>, <<"/", "r">>),
    Get(<<"p">>, <<"/", "c">>),
    GetResource }

\* The requests clients send.
Requests == {
    Get(<<"p">>, <<"/", "r">>),
    Get(<<"p">>, <<"/", "c">>),
    Get(<<"p">>, <<"/", "s">>),
    Get(<<"p">>, <<"/", "s", "/", "x">>),
    Get(<<"p">>, <<"/">>),
    Get(<<"p">>, <<"/", "z">>),
    Get(<<"p">>, <<"/", "o">> \o ResourcePath),
    Get(<<"e">>, ResourcePath),
    Request("GET", MkUri(<<>>, <<>>, ResourcePath, <<>>), <<"e">>, "y", ""),
    Get(<<"p">>, <<"/", "o", "/", "x">>),
    Get(<<"p">>, <<"/", "n", "/", "x">>),
    Get(<<"p">>, <<"/", "w">> \o ResourcePath) }

\* ------------------------------------------------------------------------
\* Responses
\* ------------------------------------------------------------------------

\* The header map of a response; the model follows the Cache-Control header.
Headers(cache_control) == [cache_control |-> cache_control]
NoHeaders == Headers(None)

\* A Cache-Control header value: utf8 says whether HeaderValue::to_str()
\* succeeds, parsed is the result of CacheControl::from_value on the text
\* (None when the text does not parse) with its max_age in seconds.
CacheControlValue(utf8, parsed) == [utf8 |-> utf8, parsed |-> parsed]
MaxAge(seconds) == Some(CacheControlValue(TRUE, Some([max_age |-> Some(seconds)])))

MkResponse(status, headers, body) ==
    [status |-> status, headers |-> headers, body |-> body]

\* Response::new(Body::from(text)): status 200 and no headers
ResponseNew(body) == MkResponse(200, NoHeaders, body)

\* Response::new(..) whose status is left as it is
ResponseWithStatus_Default(status, body) == MkResponse(200, NoHeaders, body)

\* Response::new(..) followed by *response.status_mut() = status
ResponseWithStatus(status, body) == MkResponse(status, NoHeaders, body)

\* ------------------------------------------------------------------------
\* CacheKey and CacheValue (src/src/proxy/on_request.rs)
\* ------------------------------------------------------------------------

\* a CacheKey that takes a header into the key
CacheKey_WithHeader(req) ==
    [method |-> req.method, uri |-> req.uri, body |-> req.headers.other]

CacheKey(req) == [method |-> req.method, uri |-> req.uri, body |-> req.body]

\* impl Hash for Uri: the scheme followed by 0xff, the authority, the path
\* and, when there is a query, "?" and the query.
UriHash(u) ==
    (IF u.scheme # <<>> THEN u.scheme \o <<"0xFF">> ELSE <<>>)
    \o u.authority
    \o UriPath(u)
    \o (IF u.query # <<>> THEN <<"?">> \o u.query ELSE <<>>)

\* CacheKey::to_db_key: the derived Hash feeds method, uri and body to the
\* hasher in field order; the 64-bit digest is taken to be collision-free,
\* so the key is the text the hasher is fed.
to_db_key(key) == <<key.method>> \o UriHash(key.uri) \o <<"|", key.body>>

\* the number of bits of the model's u32
U32Bits == 2
U32_MAX == 2 ^ U32Bits - 1

\* u32::try_from(i64).ok()
U32TryFrom(v) == IF 0 <= v /\ v <= U32_MAX THEN Some(v) ELSE None

CacheValue(status, headers, body, timestamp, validity) ==
    [status |-> status, headers |-> headers, body |-> body,
     timestamp |-> timestamp, validity |-> validity]

\* a serialization that writes the validity before the timestamp
Serialize_ValidityFirst(value) ==
    <<value.status, value.headers, value.body, value.validity, value.timestamp>>

\* bincode::serialize(&CacheValueForSerialization): the fields in the order
\* in which the struct declares them
Serialize(value) ==
    <<value.status, value.headers, value.body, value.timestamp, value.validity>>

\* bincode::deserialize::<CacheValueForDeserialization>: reads the five
\* fields in declaration order; input that ends early is an error.
Deserialize(bytes) ==
    IF Len(bytes) >= 5
    THEN Some(CacheValue(bytes[1], bytes[2], bytes[3], bytes[4], bytes[5]))
    ELSE None

\* ------------------------------------------------------------------------
\* The store (sled::Db)
\* ------------------------------------------------------------------------

\* The store maps keys to byte strings; its domain is the set of keys held.
EmptyDb == << >>

DbHas(db, key) == key \in DOMAIN db

\* Db::insert that keeps the value a key already has
DbInsert_KeepFirst(db, key, bytes) ==
    [k \in DOMAIN db \cup {key} |-> IF k \in DOMAIN db THEN db[k] ELSE bytes]

\* Db::insert: last write wins
DbInsert(db, key, bytes) ==
    [k \in (DOMAIN db) \cup {key} |-> IF k = key THEN bytes ELSE db[k]]

\* ------------------------------------------------------------------------
\* Middlewares (src/src/proxy/on_request.rs)
\* ------------------------------------------------------------------------

\* What a middleware acts on besides the request: the store and the number
\* of reload signals waiting in the reload channel.
World(db, signals) == [db |-> db, signals |-> signals]

\* Result<Request<Bytes>, Response<Body>> of a middleware, with the world it
\* leaves. stage names the middleware that made the response.
Ok(req, w) == [ok |-> TRUE, req |-> req, w |-> w]
Err(resp, stage, w) == [ok |-> FALSE, resp |-> resp, stage |-> stage, w |-> w]

\* handle_config_reload that publishes no reload signal
handle_config_reload_NoSignal(req, proxy_config, w) ==
    IF UriPath(req.uri) = proxy_config.reload_config_url_path
    THEN Err(ResponseNew("Proxy config reload scheduled."), "reload", w)
    ELSE Ok(req, w)

\* handle_config_reload
handle_config_reload(req, proxy_config, w) ==
    IF UriPath(req.uri) = proxy_config.reload_config_url_path
    THEN Err(ResponseNew("Proxy config reload scheduled."), "reload",
             World(w.db, w.signals + 1))
    ELSE Ok(req, w)

\* handle_clear_cache that answers without clearing the store
handle_clear_cache_NoClear(req, proxy_config, w, clear_ok) ==
    IF UriPath(req.uri) = proxy_config.clear_cache_url_path
    THEN Err(ResponseNew("Cache cleared."), "clear", w)
    ELSE Ok(req, w)

\* handle_clear_cache; clear_ok is the outcome of db.clear()
handle_clear_cache(req, proxy_config, w, clear_ok) ==
    IF UriPath(req.uri) = proxy_config.clear_cache_url_path
    THEN IF ~clear_ok
         THEN Err(ResponseNew("Cache clearing failed."), "clear", w)
         ELSE Err(ResponseNew("Cache cleared."), "clear", World(EmptyDb, w.signals))
    ELSE Ok(req, w)

\* handle_status that matches the path by prefix
handle_status_Prefix(req, proxy_config, w) ==
    IF StartsWith(UriPath(req.uri), proxy_config.status_url_path)
    THEN Err(ResponseNew("Proxy is ready."), "status", w)
    ELSE Ok(req, w)

\* handle_status
handle_status(req, proxy_config, w) ==
    IF UriPath(req.uri) = proxy_config.status_url_path
    THEN Err(ResponseNew("Proxy is ready."), "status", w)
    ELSE Ok(req, w)

\* the host handle_routes matches on: the URI's host, else the Host header
\* when it is a string, else ""
RouteHost(req) ==
    IF req.uri.authority # <<>> THEN UriHost(req.uri)
    ELSE IF req.headers.host # <<>> /\ ToStr(req.headers.host).some
         THEN req.headers.host
         ELSE <<>>

\* the host of handle_routes with the Host header taken before the URI
RouteFrom_HeaderFirst(req) ==
    (IF req.headers.host # <<>> /\ ToStr(req.headers.host).some
     THEN req.headers.host
     ELSE IF req.uri.authority # <<>> THEN UriHost(req.uri) ELSE <<>>)
    \o UriPath(req.uri) \o req.uri.query

\* format!("{}{}{}", host, uri.path(), uri.query().unwrap_or_default())
RouteFrom(req) == RouteHost(req) \o UriPath(req.uri) \o req.uri.query

\* FindRoute that takes the route with the longest matching prefix
FindRoute_Longest(routes, from) ==
    IF \E i \in 1..Len(routes) : StartsWith(from, routes[i].from)
    THEN CHOOSE i \in 1..Len(routes) :
            /\ StartsWith(from, routes[i].from)
            /\ \A j \in 1..Len(routes) :
                StartsWith(from, routes[j].from)
                => Len(routes[j].from) <= Len(routes[i].from)
    ELSE 0

\* routes.iter().find(..): the index of the first route whose from is a
\* prefix of the string, 0 if there is none
FindRoute(routes, from) ==
    IF \E i \in 1..Len(routes) : StartsWith(from, routes[i].from)
    THEN CHOOSE i \in 1..Len(routes) :
            /\ StartsWith(from, routes[i].from)
            /\ \A j \in 1..(i - 1) : ~StartsWith(from, routes[j].from)
    ELSE 0

\* only a route with validate = true is validated
RouteValidates_OnlyTrue(route) == route.validate.some /\ route.validate.v = TRUE

\* no route is validated
RouteValidates_Never(route) == FALSE

\* the request validation of handle_routes applies to the route
RouteValidates(route) == ~(route.validate.some /\ route.validate.v = FALSE)

\* handle_routes that passes on a request whose outbound URI has no host
handle_routes_NoHostCheck(req, proxy_config, w) ==
    LET from == RouteFrom(req)
        i    == FindRoute(proxy_config.routes, from)
    IN  IF i = 0
        THEN IF UriPath(req.uri) = <<"/">>
             THEN Err(ResponseNew("landing.html"), "routes", w)
             ELSE Err(ResponseWithStatus(404,
                        "404. The requested URL was not found on this server."),
                      "routes", w)
        ELSE
            LET route == proxy_config.routes[i]
                routed_path_and_query == TrimStartMatches(from, route.from)
                uri == ParseUri(UriDisplay(route.to)
                                \o TrimStartMatches(routed_path_and_query, <<"/">>))
            IN  IF RouteValidates(route) /\ ~validate_request(routed_path_and_query)
                THEN Err(ResponseWithStatus(400, "Invalid request."), "routes", w)
                ELSE IF uri = InvalidUri
                THEN Err(ResponseWithStatus(500, "Cannot route to invalid URI."),
                         "routes", w)
                ELSE Ok([req EXCEPT !.uri = uri, !.headers.host = UriHost(uri)], w)

\* handle_routes
handle_routes(req, proxy_config, w) ==
    LET from == RouteFrom(req)
        i    == FindRoute(proxy_config.routes, from)
    IN  IF i = 0
        THEN IF UriPath(req.uri) = <<"/">>
             THEN Err(ResponseNew("landing.html"), "routes", w)
             ELSE Err(ResponseWithStatus(404,
                        "404. The requested URL was not found on this server."),
                      "routes", w)
        ELSE
            LET route == proxy_config.routes[i]
                routed_path_and_query == TrimStartMatches(from, route.from)
                uri == ParseUri(UriDisplay(route.to)
                                \o TrimStartMatches(routed_path_and_query, <<"/">>))
            IN  IF RouteValidates(route) /\ ~validate_request(routed_path_and_query)
                THEN Err(ResponseWithStatus(400, "Invalid request."), "routes", w)
                ELSE IF uri = InvalidUri
                THEN Err(ResponseWithStatus(500, "Cannot route to invalid URI."),
                         "routes", w)
                ELSE IF uri.authority = <<>>
                THEN Err(ResponseWithStatus(500, "Cannot route to URI without host."),
                         "routes", w)
                ELSE Ok([req EXCEPT !.uri = uri, !.headers.host = UriHost(uri)], w)

\* IsFresh with the boundary excluded (>= where the code has >)
IsFresh_Strict(cached_response, now_timestamp) ==
    ~(now_timestamp >= cached_response.timestamp + cached_response.validity)

\* the cached response is still valid at time now
IsFresh(cached_response, now_timestamp) ==
    ~(now_timestamp > cached_response.timestamp + cached_response.validity)

\* the response built from a cached value
CachedResponse(cached_response) ==
    MkResponse(cached_response.status, cached_response.headers, cached_response.body)

\* the key handle_cache reads the store with
LookupKey(req) == to_db_key(CacheKey(req))

\* handle_cache that evicts the entry it finds not fresh
handle_cache_EvictStale(req, w, now_timestamp, get_ok) ==
    LET key == LookupKey(req)
    IN  IF ~get_ok
        THEN Err(ResponseWithStatus(500, "Cannot read from the cache."), "cache", w)
        ELSE IF ~DbHas(w.db, key) THEN Ok(req, w)
        ELSE LET cached_response == Deserialize(w.db[key])
             IN  IF ~cached_response.some
                 THEN Err(ResponseWithStatus(500, "Cannot deserialize a cached response."),
                          "cache", w)
                 ELSE IF ~IsFresh(cached_response.v, now_timestamp)
                 THEN Ok(req, World([k \in DOMAIN w.db \ {key} |-> w.db[k]], w.signals))
                 ELSE Err(CachedResponse(cached_response.v), "cache", w)

\* handle_cache that takes an entry it cannot decode for a miss
handle_cache_SkipUndecodable(req, w, now_timestamp, get_ok) ==
    LET key == LookupKey(req)
        cached_response == Deserialize(w.db[key])
    IN  IF ~get_ok
        THEN Err(ResponseWithStatus(500, "Cannot read from the cache."), "cache", w)
        ELSE IF ~DbHas(w.db, key) \/ ~cached_response.some
                \/ ~IsFresh(cached_response.v, now_timestamp)
        THEN Ok(req, w)
        ELSE Err(CachedResponse(cached_response.v), "cache", w)

\* handle_cache; get_ok is the outcome of db.get()
handle_cache(req, w, now_timestamp, get_ok) ==
    LET key == LookupKey(req)
    IN  IF ~get_ok
        THEN Err(ResponseWithStatus(500, "Cannot read from the cache."), "cache", w)
        ELSE IF ~DbHas(w.db, key) THEN Ok(req, w)
        ELSE LET cached_response == Deserialize(w.db[key])
             IN  IF ~cached_response.some
                 THEN Err(ResponseWithStatus(500, "Cannot deserialize a cached response."),
                          "cache", w)
                 ELSE IF ~IsFresh(cached_response.v, now_timestamp) THEN Ok(req, w)
                 ELSE Err(CachedResponse(cached_response.v), "cache", w)

\* apply_request_middlewares with the clear stage before the reload stage
apply_request_middlewares_ClearFirst(req, proxy_config, w, now_timestamp, env) ==
    LET cleared  == handle_clear_cache(req, proxy_config, w, env.clear_ok)
        reloaded == IF cleared.ok
                    THEN handle_config_reload(cleared.req, proxy_config, cleared.w)
                    ELSE cleared
        checked  == IF reloaded.ok
                    THEN handle_status(reloaded.req, proxy_config, reloaded.w)
                    ELSE reloaded
        routed   == IF checked.ok
                    THEN handle_routes(checked.req, proxy_config, checked.w)
                    ELSE checked
    IN  IF routed.ok /\ proxy_config.cache_enabled
        THEN handle_cache(routed.req, routed.w, now_timestamp, env.get_ok)
        ELSE routed

\* apply_request_middlewares that looks the request up whatever
\* cache_enabled says
apply_request_middlewares_AlwaysLookup(req, proxy_config, w, now_timestamp, env) ==
    LET reloaded == handle_config_reload(req, proxy_config, w)
        cleared  == IF reloaded.ok
                    THEN handle_clear_cache(reloaded.req, proxy_config, reloaded.w,
                                            env.clear_ok)
                    ELSE reloaded
        checked  == IF cleared.ok
                    THEN handle_status(cleared.req, proxy_config, cleared.w)
                    ELSE cleared
        routed   == IF checked.ok
                    THEN handle_routes(checked.req, proxy_config, checked.w)
                    ELSE checked
    IN  IF routed.ok
        THEN handle_cache(routed.req, routed.w, now_timestamp, env.get_ok)
        ELSE routed

\* apply_request_middlewares with the routes stage before the status stage
apply_request_middlewares_RoutesFirst(req, proxy_config, w, now_timestamp, env) ==
    LET reloaded == handle_config_reload(req, proxy_config, w)
        cleared  == IF reloaded.ok
                    THEN handle_clear_cache(reloaded.req, proxy_config, reloaded.w,
                                            env.clear_ok)
                    ELSE reloaded
        routed   == IF cleared.ok
                    THEN handle_routes(cleared.req, proxy_config, cleared.w)
                    ELSE cleared
        checked  == IF routed.ok
                    THEN handle_status(routed.req, proxy_config, routed.w)
                    ELSE routed
    IN  IF checked.ok /\ proxy_config.cache_enabled
        THEN handle_cache(checked.req, checked.w, now_timestamp, env.get_ok)
        ELSE checked

\* apply_request_middlewares; env holds the outcomes of the store calls.
\* The ? operator: the next middleware runs only on Ok.
apply_request_middlewares(req, proxy_config, w, now_timestamp, env) ==
    LET reloaded == handle_config_reload(req, proxy_config, w)
        cleared  == IF reloaded.ok
                    THEN handle_clear_cache(reloaded.req, proxy_config, reloaded.w,
                                            env.clear_ok)
                    ELSE reloaded
        checked  == IF cleared.ok
                    THEN handle_status(cleared.req, proxy_config, cleared.w)
                    ELSE cleared
        routed   == IF checked.ok
                    THEN handle_routes(checked.req, proxy_config, checked.w)
                    ELSE checked
    IN  IF routed.ok /\ proxy_config.cache_enabled
        THEN handle_cache(routed.req, routed.w, now_timestamp, env.get_ok)
        ELSE routed

\* ------------------------------------------------------------------------
\* Origin dispatch (src/src/proxy/on_request.rs)
\* ------------------------------------------------------------------------

\* clone_request: the clone has the method, URI, headers and body of the
\* request
clone_request(req) ==
    [method |-> req.method, uri |-> req.uri, headers |-> req.headers, body |-> req.body]

\* the key handle_origin_fail reads the store with
FallbackKey(req) == to_db_key(CacheKey(req))

\* TooOld with the boundary included (>= where the code has >)
TooOld_AtThreshold(cached_response, proxy_config, now_timestamp) ==
    now_timestamp - cached_response.timestamp >= proxy_config.cache_stale_threshold_on_fail

\* the cached response is too old to be returned when the origin fails
TooOld(cached_response, proxy_config, now_timestamp) ==
    now_timestamp - cached_response.timestamp > proxy_config.cache_stale_threshold_on_fail

\* handle_origin_fail that reads the store only when caching is enabled
handle_origin_fail_IfEnabled(req, proxy_config, db, now_timestamp, get_ok) ==
    LET key == FallbackKey(req)
        cached_response == Deserialize(db[key])
    IN  IF ~proxy_config.cache_enabled \/ (get_ok /\ ~DbHas(db, key))
        THEN ResponseWithStatus(500, "No valid response.")
        ELSE IF ~get_ok
        THEN ResponseWithStatus(500, "Cannot read from the cache.")
        ELSE IF ~cached_response.some
        THEN ResponseWithStatus(500, "Cannot deserialize a cached response.")
        ELSE IF TooOld(cached_response.v, proxy_config, now_timestamp)
        THEN ResponseWithStatus(500, "No valid response. Cached response too old.")
        ELSE CachedResponse(cached_response.v)

\* handle_origin_fail; get_ok is the outcome of db.get()
handle_origin_fail(req, proxy_config, db, now_timestamp, get_ok) ==
    LET key == FallbackKey(req)
    IN  IF ~get_ok
        THEN ResponseWithStatus(500, "Cannot read from the cache.")
        ELSE IF ~DbHas(db, key)
        THEN ResponseWithStatus(500, "No valid response.")
        ELSE LET cached_response == Deserialize(db[key])
             IN  IF ~cached_response.some
                 THEN ResponseWithStatus(500, "Cannot deserialize a cached response.")
                 ELSE IF TooOld(cached_response.v, proxy_config, now_timestamp)
                 THEN ResponseWithStatus(500, "No valid response. Cached response too old.")
                 ELSE CachedResponse(cached_response.v)

\* validity_from_response with a wrapping cast (as u32) for u32::try_from
validity_from_response_Cast(response, proxy_config) ==
    LET header_value == response.headers.cache_control
        text          == IF header_value.some /\ header_value.v.utf8
                         THEN header_value.v.parsed ELSE None
        max_age       == IF text.some THEN text.v.max_age ELSE None
    IN  IF max_age.some THEN max_age.v % (U32_MAX + 1)
        ELSE proxy_config.default_cache_validity

\* validity_from_response
validity_from_response(response, proxy_config) ==
    LET header_value == response.headers.cache_control
        text          == IF header_value.some /\ header_value.v.utf8
                         THEN header_value.v.parsed ELSE None
        max_age       == IF text.some THEN text.v.max_age ELSE None
        seconds       == IF max_age.some THEN U32TryFrom(max_age.v) ELSE None
    IN  IF seconds.some THEN seconds.v ELSE proxy_config.default_cache_validity

\* NewCacheValue that does not take the timestamp from the clock
NewCacheValue_NoClock(response, proxy_config, now_timestamp) ==
    CacheValue(response.status, response.headers, response.body,
               0, validity_from_response(response, proxy_config))

\* the value cache_response serializes for a buffered origin response
NewCacheValue(response, proxy_config, now_timestamp) ==
    CacheValue(response.status, response.headers, response.body,
               now_timestamp, validity_from_response(response, proxy_config))

\* what cache_response writes to stderr
CacheLog(ser_ok, insert_ok) ==
    IF ~ser_ok THEN "cannot serialize response"
    ELSE IF ~insert_ok THEN "cannot cache response with the key"
    ELSE ""

\* cache_response that answers 500 when the entry cannot be written
cache_response_Surfaced(response, response_db_key, proxy_config, db, now_timestamp, ser_ok, insert_ok) ==
    [ db     |-> IF ser_ok /\ insert_ok
                 THEN DbInsert(db, response_db_key,
                        Serialize(NewCacheValue(response, proxy_config, now_timestamp)))
                 ELSE db,
      logged |-> CacheLog(ser_ok, insert_ok),
      resp   |-> IF ser_ok /\ insert_ok
                 THEN MkResponse(response.status, response.headers, response.body)
                 ELSE ResponseWithStatus(500, "Cannot cache the response.") ]

\* cache_response after fork_response has buffered the body: the store it
\* leaves, what it logs and the response it returns (the fork of the origin
\* response). ser_ok and insert_ok are the outcomes of bincode::serialize
\* and db.insert; a failure of either is logged and nothing else.
cache_response(response, response_db_key, proxy_config, db, now_timestamp, ser_ok, insert_ok) ==
    [ db     |-> IF ser_ok /\ insert_ok
                 THEN DbInsert(db, response_db_key,
                        Serialize(NewCacheValue(response, proxy_config, now_timestamp)))
                 ELSE db,
      logged |-> CacheLog(ser_ok, insert_ok),
      resp   |-> MkResponse(response.status, response.headers, response.body) ]

\* ------------------------------------------------------------------------
\* State
\* ------------------------------------------------------------------------

\* The request tasks the server runs at the same time.
Tasks == {"t1", "t2"}

\* The responses of the origin: status, headers and body.
OriginResponses == {
    MkResponse(200, NoHeaders, "b1"),
    MkResponse(200, Headers(MaxAge(1)), "b2"),
    MkResponse(500, NoHeaders, "oops") }

\* The outcomes of client.request(req): Err (None) or Ok(response).
OriginOutcomes == {None} \cup {Some(r) : r \in OriginResponses}

\* The outcomes in the runs with concurrent request tasks: the send fails
\* or the origin answers 2xx.
CoreOutcomes == {o \in OriginOutcomes : o.some => validate_response(o.v)}

VARIABLES
    db,        \* the store: key -> serialized CacheValue
    now,       \* the value now_timestamp() returns
    config,    \* the shared config snapshot (the watch channel's value)
    signals,   \* reload signals waiting in the reload channel
    task,      \* task[t]: the request task t
    probe,     \* the test that drives the proxy, if any: its counters, or
               \* the state of its test_callbacks harness
    server     \* where the server of Proxy::start is: "running", then
               \* "draining", "flushing", "flushed" and "stopped"

vars == <<db, now, config, signals, task, probe, server>>

\* A task that has no request yet. cfg is the config snapshot of the
\* request, req the inbound request, routed the request the pipeline
\* yields, response the origin's response, out the result of on_request,
\* via the stage that made it, logged what the task wrote to stderr.
IdleTask ==
    [ pc |-> "idle", cfg |-> None, req |-> None, routed |-> None,
      response_db_key |-> None, req_clone |-> None, response |-> None,
      out |-> None, via |-> "", logged |-> "" ]

Init ==
    /\ db = EmptyDb
    /\ now = 0
    /\ config \in Configs
    /\ signals = 0
    /\ task = [t \in Tasks |-> IdleTask]
    /\ probe = None
    /\ server = "running"

\* The task ends with the result out of on_request, Some(response) or None
\* for Err(hyper::Error); via names the stage that made it.
Finish(fields, out, via) ==
    [fields EXCEPT !.pc = "done", !.out = out, !.via = via]

\* ------------------------------------------------------------------------
\* Actions
\* ------------------------------------------------------------------------

\* The service closure of Proxy::start: a request of reqs arrives at the
\* server, which accepts requests until it is told to shut down; the task
\* takes the current config snapshot and on_request starts to read the body.
Accept(t, reqs) ==
    /\ server = "running"
    /\ task[t].pc \in {"idle", "done"}
    /\ \E req \in reqs :
        task' = [task EXCEPT ![t] =
                    [IdleTask EXCEPT !.pc = "ingest", !.cfg = Some(config),
                                     !.req = Some(req)]]
    /\ UNCHANGED <<db, now, config, signals>>

\* on_request once the body is read (or reading it failed): the middleware
\* pipeline and, when it yields a request, the start of
\* send_request_and_handle_response up to client.request(req). oks holds
\* the outcomes the body read and the store calls can have; the runs follow
\* the reload channel up to cap waiting signals.
PipelineUpTo(t, oks, cap) ==
    /\ task[t].pc = "ingest"
    /\ \E ingest_ok \in oks, env \in [clear_ok : oks, get_ok : oks] :
        LET cur == task[t]
            result == apply_request_middlewares(cur.req.v, cur.cfg.v,
                                                World(db, signals), now, env)
        IN  IF ~ingest_ok
            THEN /\ task' = [task EXCEPT ![t] = Finish(cur, None, "error")]
                 /\ UNCHANGED <<db, signals>>
            ELSE /\ result.w.signals <= cap
                 /\ db' = result.w.db
                 /\ signals' = result.w.signals
                 /\ task' = [task EXCEPT ![t] =
                        IF result.ok
                        THEN [cur EXCEPT
                                !.pc = "sent",
                                !.routed = Some(result.req),
                                !.response_db_key = Some(to_db_key(CacheKey(result.req))),
                                !.req_clone = Some(clone_request(result.req))]
                        ELSE Finish(cur, Some(result.resp), result.stage)]
    /\ UNCHANGED <<now, config>>

\* a fallback that sends the request to the origin again
Fallback_Retry(cur, get_ok) == [cur EXCEPT !.pc = "sent"]

\* on_request once the body is read, in the runs that follow the reload
\* channel up to MaxSignals waiting signals
Pipeline(t, oks) == PipelineUpTo(t, oks, MaxSignals)

\* the stale fallback with the current config where the code has the
\* snapshot of the request
Fallback_SharedConfig(cur, get_ok) ==
    Finish(cur, Some(handle_origin_fail(cur.req_clone.v, config, db, now, get_ok)),
           "fallback")

\* the stale fallback of a task: it ends with handle_origin_fail's response
Fallback(cur, get_ok) ==
    Finish(cur, Some(handle_origin_fail(cur.req_clone.v, cur.cfg.v, db, now, get_ok)),
           "fallback")

\* OriginRespond that goes on to cache_response before it validates
OriginRespond_CacheFirst(t, outcomes, oks) ==
    /\ task[t].pc = "sent"
    /\ \E outcome \in outcomes, get_ok \in oks :
        LET cur == task[t]
        IN  task' = [task EXCEPT ![t] =
                IF ~outcome.some
                THEN Fallback(cur, get_ok)
                ELSE IF cur.cfg.v.cache_enabled
                THEN [cur EXCEPT !.pc = "fork", !.response = outcome]
                ELSE IF ~validate_response(outcome.v)
                THEN Fallback([cur EXCEPT !.response = outcome], get_ok)
                ELSE Finish([cur EXCEPT !.response = outcome], outcome, "origin")]
    /\ UNCHANGED <<db, now, config, signals>>

\* client.request(req) resolves with one of outcomes: the send fails, or
\* the origin's response head arrives and send_request_and_handle_response
\* goes on up to the buffering of the body in cache_response.
OriginRespond(t, outcomes, oks) ==
    /\ task[t].pc = "sent"
    /\ \E outcome \in outcomes, get_ok \in oks :
        LET cur == task[t]
        IN  task' = [task EXCEPT ![t] =
                IF ~outcome.some
                THEN Fallback(cur, get_ok)
                ELSE IF ~validate_response(outcome.v)
                THEN Fallback([cur EXCEPT !.response = outcome], get_ok)
                ELSE IF ~cur.cfg.v.cache_enabled
                THEN Finish([cur EXCEPT !.response = outcome], outcome, "origin")
                ELSE [cur EXCEPT !.pc = "fork", !.response = outcome]]
    /\ UNCHANGED <<db, now, config, signals>>

\* CacheStore that inserts what it has of the body when the buffering fails
CacheStore_InsertPartial(t, oks) ==
    /\ task[t].pc = "fork"
    /\ \E buffer_ok \in oks, ser_ok \in oks, insert_ok \in oks :
        LET cur == task[t]
            res == cache_response(cur.response.v, cur.response_db_key.v, cur.cfg.v,
                                  db, now, ser_ok, insert_ok)
            cut == cache_response([cur.response.v EXCEPT !.body = ""],
                                  cur.response_db_key.v, cur.cfg.v,
                                  db, now, ser_ok, insert_ok)
        IN  IF ~buffer_ok
            THEN /\ task' = [task EXCEPT ![t] = Finish(cur, None, "error")]
                 /\ db' = cut.db
            ELSE /\ db' = res.db
                 /\ task' = [task EXCEPT ![t] =
                        Finish([cur EXCEPT !.logged = res.logged], Some(res.resp), "origin")]
    /\ UNCHANGED <<now, config, signals>>

\* CacheStore that reads the shared config where the code has the
\* request's snapshot
CacheStore_SharedConfig(t, oks) ==
    /\ task[t].pc = "fork"
    /\ \E buffer_ok \in oks, ser_ok \in oks, insert_ok \in oks :
        LET cur == task[t]
            res == cache_response(cur.response.v, cur.response_db_key.v, config,
                                  db, now, ser_ok, insert_ok)
        IN  IF ~buffer_ok
            THEN /\ task' = [task EXCEPT ![t] = Finish(cur, None, "error")]
                 /\ db' = db
            ELSE /\ db' = res.db
                 /\ task' = [task EXCEPT ![t] =
                        Finish([cur EXCEPT !.logged = res.logged], Some(res.resp), "origin")]
    /\ UNCHANGED <<now, config, signals>>

\* cache_response once fork_response has buffered the body (or failed to):
\* the value is serialized and inserted, the response is returned.
CacheStore(t, oks) ==
    /\ task[t].pc = "fork"
    /\ \E buffer_ok \in oks, ser_ok \in oks, insert_ok \in oks :
        LET cur == task[t]
            res == cache_response(cur.response.v, cur.response_db_key.v, cur.cfg.v,
                                  db, now, ser_ok, insert_ok)
        IN  IF ~buffer_ok
            THEN /\ task' = [task EXCEPT ![t] = Finish(cur, None, "error")]
                 /\ db' = db
            ELSE /\ db' = res.db
                 /\ task' = [task EXCEPT ![t] =
                        Finish([cur EXCEPT !.logged = res.logged], Some(res.resp), "origin")]
    /\ UNCHANGED <<now, config, signals>>

\* The connection of the request is dropped and the server drops the
\* future of on_request where it is suspended: on the read of the request
\* body, on client.request(req) or on the buffering of the response body.
\* Nothing of the request runs any more.
Cancel(t) ==
    /\ task[t].pc \in {"ingest", "sent", "fork"}
    /\ task' = [task EXCEPT ![t] = Finish(task[t], None, "cancelled")]
    /\ UNCHANGED <<db, now, config, signals>>

\* set_now_getter, or the passing of time: now_timestamp() changes.
ClockSet ==
    /\ \E n \in 0..MaxTime : n # now /\ now' = n
    /\ UNCHANGED <<db, config, signals, task>>

\* Reload that takes all waiting signals for one load
Reload_Drain(loaded) ==
    /\ signals > 0
    /\ signals' = 0
    /\ config' = IF loaded.some THEN loaded.v ELSE config
    /\ UNCHANGED <<db, now, task>>

\* Reload that broadcasts nothing when the load succeeds
Reload_NoBroadcast(loaded) ==
    /\ signals > 0
    /\ signals' = signals - 1
    /\ UNCHANGED <<db, now, config, task>>

\* One turn of the loop of the reload task: it takes a signal and
\* ProxyConfig::load returns loaded, Some(config) or None for Err.
Reload(loaded) ==
    /\ signals > 0
    /\ signals' = signals - 1
    /\ config' = IF loaded.some THEN loaded.v ELSE config
    /\ UNCHANGED <<db, now, task>>

\* The reload task of Proxy::start: it receives a signal, loads the
\* configuration file and broadcasts the loaded config; a failed load is
\* logged and the snapshot stays.
ReloadTask ==
    \E loaded \in {None} \cup {Some(c) : c \in Configs} : Reload(loaded)

\* Request tasks run concurrently; store calls and body reads may fail.
Next ==
    \/ (\E t \in Tasks : Accept(t, CoreRequests)) /\ UNCHANGED <<probe, server>>
    \/ (\E t \in Tasks : Pipeline(t, BOOLEAN)) /\ UNCHANGED <<probe, server>>
    \/ (\E t \in Tasks : OriginRespond(t, CoreOutcomes, BOOLEAN)) /\ UNCHANGED <<probe, server>>
    \/ (\E t \in Tasks : CacheStore(t, BOOLEAN)) /\ UNCHANGED <<probe, server>>
    \/ ClockSet /\ UNCHANGED <<probe, server>>
    \/ ReloadTask /\ UNCHANGED <<probe, server>>

Spec == Init /\ [][Next]_vars

\* Requests are issued one after another: one task, every request.
NextSeq ==
    \/ Accept("t1", Requests) /\ UNCHANGED <<probe, server>>
    \/ Pipeline("t1", BOOLEAN) /\ UNCHANGED <<probe, server>>
    \/ OriginRespond("t1", OriginOutcomes, BOOLEAN) /\ UNCHANGED <<probe, server>>
    \/ CacheStore("t1", BOOLEAN) /\ UNCHANGED <<probe, server>>
    \/ ClockSet /\ UNCHANGED <<probe, server>>
    \/ ReloadTask /\ UNCHANGED <<probe, server>>

SpecSeq == Init /\ [][NextSeq]_vars

\* ------------------------------------------------------------------------
\* The caching tests (src/tests/caching.rs): requests to one resource are
\* sent one after another to a proxy with caching enabled and a healthy
\* origin, the test moves the clock and reads the origin's request count.
\* ------------------------------------------------------------------------

\* the number of requests a test sends
TestRequests == 5

\* the number of requests the test has sent when it moves the clock
JumpAfter == 2

\* The requests of the tests: one resource of the origin.
ResourceRequests == {
    GetResource,
    Get(<<"e">>, ResourcePath),
    Request("GET", MkUri(<<>>, <<>>, ResourcePath, <<>>), <<"e">>, "y", "") }

\* The healthy origin answers 2xx.
HealthyOutcomes == {o \in OriginOutcomes : o.some /\ IsSuccess(o.v.status)}

\* probe: sent counts the requests the test has sent, request_count the
\* requests the origin has received, clock tells what the test did to the
\* clock: "still" (nothing), "jumped" (moved it once, past the validity of
\* the cached response, between requests JumpAfter and JumpAfter + 1) or
\* "other".
InitTest ==
    /\ db = EmptyDb
    /\ now = 0
    /\ config = CfgCache
    /\ signals = 0
    /\ task = [t \in Tasks |-> IdleTask]
    /\ probe = Some([sent |-> 0, request_count |-> 0, clock |-> "still"])
    /\ server = "running"

TestSend ==
    /\ probe.v.sent < TestRequests
    /\ Accept("t1", ResourceRequests)
    /\ probe' = Some([probe.v EXCEPT !.sent = @ + 1])
    /\ UNCHANGED server

TestOriginRespond ==
    /\ OriginRespond("t1", HealthyOutcomes, {TRUE})
    /\ probe' = Some([probe.v EXCEPT !.request_count = @ + 1])
    /\ UNCHANGED server

\* the clock jump of the tests: once, between two requests, past the
\* validity of the cached response
IsTestJump(n) ==
    /\ probe.v.clock = "still"
    /\ probe.v.sent = JumpAfter
    /\ task["t1"].pc = "done"
    /\ \E k \in DOMAIN db :
        /\ Deserialize(db[k]).some
        /\ n > Deserialize(db[k]).v.timestamp + Deserialize(db[k]).v.validity

TestClockSet ==
    /\ \E n \in 0..MaxTime :
        /\ n # now
        /\ now' = n
        /\ probe' = Some([probe.v EXCEPT !.clock =
                            IF IsTestJump(n) THEN "jumped" ELSE "other"])
    /\ UNCHANGED <<db, config, signals, task, server>>

NextTest ==
    \/ TestSend
    \/ Pipeline("t1", {TRUE}) /\ UNCHANGED <<probe, server>>
    \/ TestOriginRespond
    \/ CacheStore("t1", {TRUE}) /\ UNCHANGED <<probe, server>>
    \/ TestClockSet

SpecTest == InitTest /\ [][NextTest]_vars

\* ------------------------------------------------------------------------
\* Runs over the Cache-Control headers of the origin's responses and the
\* default validities of the configuration.
\* ------------------------------------------------------------------------

\* The Cache-Control headers: none, one that is not a string, one that does
\* not parse, one without max-age, and max-age from -1 to beyond u32.
CacheControls ==
    { None,
      Some(CacheControlValue(FALSE, None)),
      Some(CacheControlValue(TRUE, None)),
      Some(CacheControlValue(TRUE, Some([max_age |-> None]))) }
    \cup { MaxAge(v) : v \in (-1)..(U32_MAX + 1) }

HeaderOutcomes == { Some(MkResponse(200, Headers(cc), "b1")) : cc \in CacheControls }

ValidityConfigs == { ProxyConfig(TRUE, d, 1) : d \in 0..U32_MAX }

InitValidity ==
    /\ db = EmptyDb
    /\ now = 0
    /\ config \in ValidityConfigs
    /\ signals = 0
    /\ task = [t \in Tasks |-> IdleTask]
    /\ probe = None
    /\ server = "running"

NextValidity ==
    \/ Accept("t1", {GetResource}) /\ UNCHANGED <<probe, server>>
    \/ Pipeline("t1", {TRUE}) /\ UNCHANGED <<probe, server>>
    \/ OriginRespond("t1", HeaderOutcomes, {TRUE}) /\ UNCHANGED <<probe, server>>
    \/ CacheStore("t1", {TRUE}) /\ UNCHANGED <<probe, server>>
    \/ ClockSet /\ UNCHANGED <<probe, server>>

SpecValidity == InitValidity /\ [][NextValidity]_vars

\* ------------------------------------------------------------------------
\* Runs over the status codes of the origin's responses.
\* ------------------------------------------------------------------------

\* The status codes around the range StatusCode::is_success accepts.
OriginStatuses == {199, 200, 299, 300}

StatusOutcomes ==
    {None} \cup {Some(MkResponse(s, NoHeaders, "b1")) : s \in OriginStatuses}

NextStatus ==
    \/ Accept("t1", {GetResource}) /\ UNCHANGED <<probe, server>>
    \/ Pipeline("t1", {TRUE}) /\ UNCHANGED <<probe, server>>
    \/ OriginRespond("t1", StatusOutcomes, BOOLEAN) /\ UNCHANGED <<probe, server>>
    \/ CacheStore("t1", BOOLEAN) /\ UNCHANGED <<probe, server>>
    \/ ClockSet /\ UNCHANGED <<probe, server>>

SpecStatus == Init /\ [][NextStatus]_vars

\* ------------------------------------------------------------------------
\* Runs that start with the store sled::open finds in the db directory: it
\* may hold what an earlier run wrote, also a run of the earlier version
\* whose cache value has the fields status, headers and body only
\* (src/src/lib.rs).
\* ------------------------------------------------------------------------

\* the bytes of a cache value of the earlier version: three fields
LegacyBytes == <<200, NoHeaders, "b0">>

\* the stores the proxy can find when it starts
StoresOnOpen ==
    { EmptyDb,
      DbInsert(EmptyDb,
               to_db_key(CacheKey(handle_routes(GetResource, CfgCache,
                                                World(EmptyDb, 0)).req)),
               LegacyBytes) }

InitStore ==
    /\ db \in StoresOnOpen
    /\ now = 0
    /\ config \in Configs
    /\ signals = 0
    /\ task = [t \in Tasks |-> IdleTask]
    /\ probe = None
    /\ server = "running"

NextStore ==
    \/ Accept("t1", CoreRequests) /\ UNCHANGED <<probe, server>>
    \/ Pipeline("t1", BOOLEAN) /\ UNCHANGED <<probe, server>>
    \/ OriginRespond("t1", OriginOutcomes, BOOLEAN) /\ UNCHANGED <<probe, server>>
    \/ CacheStore("t1", BOOLEAN) /\ UNCHANGED <<probe, server>>
    \/ ClockSet /\ UNCHANGED <<probe, server>>
    \/ ReloadTask /\ UNCHANGED <<probe, server>>

SpecStore == InitStore /\ [][NextStore]_vars

\* ------------------------------------------------------------------------
\* Runs over route tables whose prefixes overlap and over the request URIs
\* the router tells apart.
\* ------------------------------------------------------------------------

\* a second origin, http://g
ToOther == MkUri(HttpScheme, <<"g">>, <<>>, <<>>)

\* two routes, the prefix of the one a prefix of the other's
RouteShort == ProxyRoute(<<"p", "/", "o">>, ToOrigin, None)
RouteLong == ProxyRoute(<<"p", "/", "o", "/", "a">>, ToOther, Some(FALSE))

RouteTables == { <<RouteShort, RouteLong>>, <<RouteLong, RouteShort>> }

RouteConfigs ==
    { [ProxyConfig(enabled, 0, 1) EXCEPT !.routes = routes] :
        enabled \in BOOLEAN, routes \in RouteTables }

\* Requests in origin form with a Host header, one of them with a query and
\* one with a path in which the prefix of RouteLong comes twice, and in
\* absolute form, one of them with an empty path.
RouteRequests == {
    GetResource,
    Get(<<"p">>, <<"/", "o", "/", "x">>),
    Get(<<"p">>, <<"/", "o", "/", "a", "/", "x">>),
    Get(<<"p">>, <<"/", "o", "/", "a", "p", "/", "o", "/", "a", "/", "x">>),
    Get(<<"p">>, <<"/">>),
    Get(<<"p">>, <<"/", "z">>),
    Get(<<"p">>, <<"/", "s">>),
    Request("GET", MkUri(<<>>, <<>>, <<"/">>, <<"o">>), <<"p">>, "x", ""),
    Request("GET", MkUri(HttpScheme, <<"z">>, <<>>, <<>>), <<>>, "x", ""),
    Request("GET", MkUri(HttpScheme, <<"z">>, <<"/">>, <<>>), <<>>, "x", ""),
    Request("GET", MkUri(HttpScheme, <<"z">>, <<"/", "u">>, <<>>), <<>>, "x", "") }

\* The origins answer 2xx or cannot be reached.
RouteOutcomes == {None, Some(MkResponse(200, NoHeaders, "b1"))}

InitRoute ==
    /\ db = EmptyDb
    /\ now = 0
    /\ config \in RouteConfigs
    /\ signals = 0
    /\ task = [t \in Tasks |-> IdleTask]
    /\ probe = None
    /\ server = "running"

NextRoute ==
    \/ Accept("t1", RouteRequests) /\ UNCHANGED <<probe, server>>
    \/ Pipeline("t1", BOOLEAN) /\ UNCHANGED <<probe, server>>
    \/ OriginRespond("t1", RouteOutcomes, BOOLEAN) /\ UNCHANGED <<probe, server>>
    \/ CacheStore("t1", BOOLEAN) /\ UNCHANGED <<probe, server>>

SpecRoute == InitRoute /\ [][NextRoute]_vars

\* ------------------------------------------------------------------------
\* Runs that keep what the reload task wrote to its log: "proxy config
\* reloaded" with the config it loaded, or "cannot reload proxy config".
\* ------------------------------------------------------------------------

\* the outcomes of ProxyConfig::load
LoadOutcomes == {None} \cup {Some(c) : c \in Configs}

\* the reload task takes a signal; probe keeps the outcome of the load
ReloadLogged ==
    \E loaded \in LoadOutcomes :
        /\ Reload(loaded)
        /\ probe' = Some([loaded |-> loaded])
        /\ UNCHANGED server

NextReload ==
    \/ Accept("t1", CoreRequests) /\ UNCHANGED <<probe, server>>
    \/ Pipeline("t1", BOOLEAN) /\ UNCHANGED <<probe, server>>
    \/ OriginRespond("t1", CoreOutcomes, BOOLEAN) /\ UNCHANGED <<probe, server>>
    \/ CacheStore("t1", BOOLEAN) /\ UNCHANGED <<probe, server>>
    \/ ReloadLogged

SpecReload == Init /\ [][NextReload]_vars

\* ------------------------------------------------------------------------
\* Runs in which the configuration file changes in every field the request
\* handling reads, and is reloaded while requests are under way.
\* ------------------------------------------------------------------------

\* CfgCache with another status path and its routes to the other origin,
\* caching disabled, another default validity and another threshold
CfgMoved ==
    [ProxyConfig(FALSE, 1, 0) EXCEPT
        !.status_url_path = <<"/", "t">>,
        !.routes = << ProxyRoute(<<"p", "/", "o">>, ToOther, None),
                      ProxyRoute(<<"p", "/", "s">>, ToOther, Some(FALSE)) >>]

\* CfgCache with another default validity and another threshold
CfgTuned == ProxyConfig(TRUE, 1, 0)

SnapshotConfigs == {CfgCache, CfgMoved, CfgTuned}

SnapshotRequests == {
    Get(<<"p">>, <<"/", "r">>),
    Get(<<"p">>, <<"/", "s">>),
    GetResource }

InitSnapshot ==
    /\ db = EmptyDb
    /\ now = 0
    /\ config \in SnapshotConfigs
    /\ signals = 0
    /\ task = [t \in Tasks |-> IdleTask]
    /\ probe = None
    /\ server = "running"

NextSnapshot ==
    \/ Accept("t1", SnapshotRequests) /\ UNCHANGED <<probe, server>>
    \/ Pipeline("t1", {TRUE}) /\ UNCHANGED <<probe, server>>
    \/ OriginRespond("t1", RouteOutcomes, {TRUE}) /\ UNCHANGED <<probe, server>>
    \/ CacheStore("t1", {TRUE}) /\ UNCHANGED <<probe, server>>
    \/ ClockSet /\ UNCHANGED <<probe, server>>
    \/ (\E c \in SnapshotConfigs : Reload(Some(c))) /\ UNCHANGED <<probe, server>>

SpecSnapshot == InitSnapshot /\ [][NextSnapshot]_vars

\* ------------------------------------------------------------------------
\* Runs in which clients drop their connections while their requests are
\* under way.
\* ------------------------------------------------------------------------

CancelRequests == { Get(<<"p">>, <<"/", "c">>), GetResource }

NextCancel ==
    \/ Accept("t1", CancelRequests) /\ UNCHANGED <<probe, server>>
    \/ Pipeline("t1", BOOLEAN) /\ UNCHANGED <<probe, server>>
    \/ OriginRespond("t1", CoreOutcomes, BOOLEAN) /\ UNCHANGED <<probe, server>>
    \/ CacheStore("t1", BOOLEAN) /\ UNCHANGED <<probe, server>>
    \/ ClockSet /\ UNCHANGED <<probe, server>>
    \/ Cancel("t1") /\ UNCHANGED <<probe, server>>

SpecCancel == Init /\ [][NextCancel]_vars

\* ------------------------------------------------------------------------
\* The shutdown of the server (src/src/proxy.rs, Proxy::start).
\* ------------------------------------------------------------------------

\* ProxyController::stop: the shutdown signal is sent; the server accepts
\* no request any more and goes on with the requests under way.
Stop ==
    /\ server = "running"
    /\ server' = "draining"
    /\ UNCHANGED <<db, now, config, signals, task, probe>>

\* server.await returns at once, whatever requests are under way
Drained_NoWait ==
    /\ server = "draining"
    /\ server' = "flushing"
    /\ UNCHANGED <<db, now, config, signals, task, probe>>

\* server.await returns: the graceful shutdown is over when no request is
\* under way any more; Proxy::start goes on to db.flush_async().
Drained ==
    /\ server = "draining"
    /\ \A t \in Tasks : task[t].pc \in {"idle", "done"}
    /\ server' = "flushing"
    /\ UNCHANGED <<db, now, config, signals, task, probe>>

\* db.flush_async().await resolves; a flush error is logged and nothing
\* else.
Flush ==
    /\ server = "flushing"
    /\ server' = "flushed"
    /\ UNCHANGED <<db, now, config, signals, task, probe>>

\* the on_server_stop callback is called once the store is flushed
OnServerStop ==
    /\ server = "flushed"
    /\ server' = "stopped"
    /\ UNCHANGED <<db, now, config, signals, task, probe>>

ShutdownOutcomes == {None, Some(MkResponse(200, NoHeaders, "b1"))}

NextShutdown ==
    \/ (\E t \in Tasks : Accept(t, {GetResource})) /\ UNCHANGED <<probe, server>>
    \/ (\E t \in Tasks : Pipeline(t, {TRUE})) /\ UNCHANGED <<probe, server>>
    \/ (\E t \in Tasks : OriginRespond(t, ShutdownOutcomes, {TRUE})) /\ UNCHANGED <<probe, server>>
    \/ (\E t \in Tasks : CacheStore(t, BOOLEAN)) /\ UNCHANGED <<probe, server>>
    \/ Stop
    \/ Drained
    \/ Flush
    \/ OnServerStop

SpecShutdown == Init /\ [][NextShutdown]_vars

\* ------------------------------------------------------------------------
\* Runs over the cache values: responses that differ in status, headers and
\* body are cached at different times under different default validities.
\* ------------------------------------------------------------------------

CodecResponses ==
    { MkResponse(s, h, b) : s \in {200, 204},
                            h \in {NoHeaders, Headers(MaxAge(1))},
                            b \in {"", "b1"} }

CodecOutcomes == { Some(r) : r \in CodecResponses }

CodecConfigs == { ProxyConfig(TRUE, d, 1) : d \in {0, U32_MAX} }

InitCodec ==
    /\ db = EmptyDb
    /\ now = 0
    /\ config \in CodecConfigs
    /\ signals = 0
    /\ task = [t \in Tasks |-> IdleTask]
    /\ probe = None
    /\ server = "running"

NextCodec ==
    \/ Accept("t1", {GetResource}) /\ UNCHANGED <<probe, server>>
    \/ Pipeline("t1", {TRUE}) /\ UNCHANGED <<probe, server>>
    \/ OriginRespond("t1", CodecOutcomes, {TRUE}) /\ UNCHANGED <<probe, server>>
    \/ CacheStore("t1", {TRUE}) /\ UNCHANGED <<probe, server>>
    \/ ClockSet /\ UNCHANGED <<probe, server>>

SpecCodec == InitCodec /\ [][NextCodec]_vars

\* ------------------------------------------------------------------------
\* Runs with routes whose targets are URIs without scheme: a path only, or
\* an authority only.
\* ------------------------------------------------------------------------

\* a route target in authority form, "h"
ToAuthority == MkUri(<<>>, <<"h">>, <<>>, <<>>)

TargetRoutes == <<
    ProxyRoute(<<"p", "/", "w">>, ToNoHost, None),
    ProxyRoute(<<"p", "/", "v">>, ToAuthority, None),
    ProxyRoute(<<"p", "/", "o">>, ToOrigin, None) >>

TargetConfigs ==
    { [ProxyConfig(enabled, 0, 1) EXCEPT !.routes = TargetRoutes] : enabled \in BOOLEAN }

TargetRequests == {
    Get(<<"p">>, <<"/", "w">>),
    Get(<<"p">>, <<"/", "w">> \o ResourcePath),
    Get(<<"p">>, <<"/", "v">>),
    Get(<<"p">>, <<"/", "v">> \o ResourcePath),
    GetResource }

InitTarget ==
    /\ db = EmptyDb
    /\ now = 0
    /\ config \in TargetConfigs
    /\ signals = 0
    /\ task = [t \in Tasks |-> IdleTask]
    /\ probe = None
    /\ server = "running"

NextTarget ==
    \/ Accept("t1", TargetRequests) /\ UNCHANGED <<probe, server>>
    \/ Pipeline("t1", BOOLEAN) /\ UNCHANGED <<probe, server>>
    \/ OriginRespond("t1", RouteOutcomes, BOOLEAN) /\ UNCHANGED <<probe, server>>
    \/ CacheStore("t1", BOOLEAN) /\ UNCHANGED <<probe, server>>

SpecTarget == InitTarget /\ [][NextTarget]_vars

\* ------------------------------------------------------------------------
\* Runs over the hosts of requests: in the URI, in the Host header, in
\* both, in neither, and Host headers that are not host names.
\* ------------------------------------------------------------------------

\* a route for paths and a route for the host z
PathRoute == ProxyRoute(<<"/", "o">>, ToOrigin, Some(FALSE))
HostRoute == ProxyRoute(<<"z", "/">>, ToOther, Some(FALSE))

HostConfigs ==
    { [ProxyConfig(enabled, 0, 1) EXCEPT !.routes = <<PathRoute, HostRoute>>] :
        enabled \in BOOLEAN }

\* Host header values: none, a host name, bytes outside UTF-8, UTF-8 text
\* that is not ASCII, and a text that starts with a slash
HostHeaders == { <<>>, <<"p">>, <<"z">>, <<"0xFF">>, <<"0xC3", "0xA9">>, <<"/", "o">> }

HostRequests ==
    { Get(h, <<"/", "o", "/", "x">>) : h \in HostHeaders }
    \cup { Get(h, <<"/", "x">>) : h \in HostHeaders }
    \cup { Request("GET", MkUri(HttpScheme, <<"z">>, <<"/", "o">>, <<>>), h, "x", "") :
            h \in {<<>>, <<"p">>} }
    \cup { Request("GET", MkUri(<<>>, <<>>, <<"/">>, <<"o", "x">>), <<>>, "x", "") }

InitHost ==
    /\ db = EmptyDb
    /\ now = 0
    /\ config \in HostConfigs
    /\ signals = 0
    /\ task = [t \in Tasks |-> IdleTask]
    /\ probe = None
    /\ server = "running"

NextHost ==
    \/ Accept("t1", HostRequests) /\ UNCHANGED <<probe, server>>
    \/ Pipeline("t1", {TRUE}) /\ UNCHANGED <<probe, server>>
    \/ OriginRespond("t1", RouteOutcomes, {TRUE}) /\ UNCHANGED <<probe, server>>
    \/ CacheStore("t1", {TRUE}) /\ UNCHANGED <<probe, server>>

SpecHost == InitHost /\ [][NextHost]_vars

\* ------------------------------------------------------------------------
\* Runs with configurations whose administrative paths coincide with each
\* other or with the path of a routed resource.
\* ------------------------------------------------------------------------

OrderConfigs ==
    { [CfgCache EXCEPT !.clear_cache_url_path = c, !.status_url_path = s] :
        c \in { <<"/", "r">>, <<"/", "c">> },
        s \in { <<"/", "r">>, <<"/", "c">>, <<"/", "s">>, <<"/", "o">> \o ResourcePath } }

OrderRequests == {
    Get(<<"p">>, <<"/", "r">>),
    Get(<<"p">>, <<"/", "c">>),
    Get(<<"p">>, <<"/", "s">>),
    Get(<<"p">>, <<"/", "z">>),
    GetResource }

InitOrder ==
    /\ db = EmptyDb
    /\ now = 0
    /\ config \in OrderConfigs
    /\ signals = 0
    /\ task = [t \in Tasks |-> IdleTask]
    /\ probe = None
    /\ server = "running"

NextOrder ==
    \/ Accept("t1", OrderRequests) /\ UNCHANGED <<probe, server>>
    \/ Pipeline("t1", BOOLEAN) /\ UNCHANGED <<probe, server>>
    \/ OriginRespond("t1", RouteOutcomes, {TRUE}) /\ UNCHANGED <<probe, server>>
    \/ CacheStore("t1", {TRUE}) /\ UNCHANGED <<probe, server>>
    \/ (\E c \in OrderConfigs : Reload(Some(c))) /\ UNCHANGED <<probe, server>>

SpecOrder == InitOrder /\ [][NextOrder]_vars

\* ------------------------------------------------------------------------
\* Runs that keep the time at which the origin's response arrived, while
\* the clock moves and the configuration is reloaded.
\* ------------------------------------------------------------------------

\* client.request(req) resolves; probe keeps the clock value of that moment
OriginRespondTimed ==
    /\ OriginRespond("t1", RouteOutcomes, {TRUE})
    /\ probe' = Some([arrived |-> now])
    /\ UNCHANGED server

NextTimed ==
    \/ Accept("t1", {GetResource, Get(<<"p">>, <<"/", "r">>)}) /\ UNCHANGED <<probe, server>>
    \/ Pipeline("t1", {TRUE}) /\ UNCHANGED <<probe, server>>
    \/ OriginRespondTimed
    \/ CacheStore("t1", {TRUE}) /\ UNCHANGED <<probe, server>>
    \/ ClockSet /\ UNCHANGED <<probe, server>>
    \/ (\E c \in SnapshotConfigs : Reload(Some(c))) /\ UNCHANGED <<probe, server>>

SpecTimed == InitSnapshot /\ [][NextTimed]_vars

\* ------------------------------------------------------------------------
\* Runs that count, for the request under way, the calls of
\* client.request and the results on_request returns.
\* ------------------------------------------------------------------------

OnceRequests == CoreRequests \cup
    { Get(<<"p">>, <<"/", "s">>), Get(<<"p">>, <<"/", "z">>),
      Get(<<"p">>, <<"/", "o", "/", "x">>) }

\* probe after a step of task t1: one more call of client.request when the
\* task has come to wait for the origin, one more result when it has ended
Counted ==
    Some([ requests |-> probe.v.requests + (IF task'["t1"].pc = "sent" THEN 1 ELSE 0),
           outcomes |-> probe.v.outcomes + (IF task'["t1"].pc = "done" THEN 1 ELSE 0) ])

InitOnce ==
    /\ db = EmptyDb
    /\ now = 0
    /\ config \in Configs
    /\ signals = 0
    /\ task = [t \in Tasks |-> IdleTask]
    /\ probe = Some([requests |-> 0, outcomes |-> 0])
    /\ server = "running"

OnceAccept ==
    /\ Accept("t1", OnceRequests)
    /\ probe' = Some([requests |-> 0, outcomes |-> 0])
    /\ UNCHANGED server

OncePipeline ==
    /\ Pipeline("t1", BOOLEAN)
    /\ probe' = Counted
    /\ UNCHANGED server

OnceOriginRespond ==
    /\ probe.v.requests < MaxSends
    /\ OriginRespond("t1", OriginOutcomes, BOOLEAN)
    /\ probe' = Counted
    /\ UNCHANGED server

OnceCacheStore ==
    /\ CacheStore("t1", BOOLEAN)
    /\ probe' = Counted
    /\ UNCHANGED server

NextOnce ==
    \/ OnceAccept
    \/ OncePipeline
    \/ OnceOriginRespond
    \/ OnceCacheStore
    \/ ClockSet /\ UNCHANGED <<probe, server>>
    \/ ReloadTask /\ UNCHANGED <<probe, server>>

SpecOnce == InitOnce /\ [][NextOnce]_vars

\* ------------------------------------------------------------------------
\* Runs that count the reload signals published and the load attempts of
\* the reload task, which the runtime schedules whenever a signal waits.
\* ------------------------------------------------------------------------

InitSignals ==
    /\ db = EmptyDb
    /\ now = 0
    /\ config \in Configs
    /\ signals = 0
    /\ task = [t \in Tasks |-> IdleTask]
    /\ probe = Some([published |-> 0, attempts |-> 0, failed |-> 0])
    /\ server = "running"

\* a request task runs its pipeline; probe counts the signal it publishes
SignalsPipeline(t) ==
    /\ PipelineUpTo(t, {TRUE}, MaxPublished)
    /\ probe.v.published + (signals' - signals) <= MaxPublished
    /\ probe' = Some([probe.v EXCEPT !.published = @ + (signals' - signals)])
    /\ UNCHANGED server

\* the reload task takes a signal and loads the configuration; probe counts
\* the attempt, and the attempts that failed
SignalsReload ==
    \E loaded \in LoadOutcomes :
        /\ Reload(loaded)
        /\ probe' = Some([probe.v EXCEPT !.attempts = @ + 1,
                                         !.failed = @ + (IF loaded.some THEN 0 ELSE 1)])
        /\ UNCHANGED server

NextSignals ==
    \/ Accept("t1", CoreRequests) /\ UNCHANGED <<probe, server>>
    \/ SignalsPipeline("t1")
    \/ OriginRespond("t1", CoreOutcomes, {TRUE}) /\ UNCHANGED <<probe, server>>
    \/ CacheStore("t1", {TRUE}) /\ UNCHANGED <<probe, server>>
    \/ SignalsReload

\* the reload task is a spawned task of the runtime: it runs when a signal
\* waits in its channel
SpecSignals == InitSignals /\ [][NextSignals]_vars /\ WF_vars(SignalsReload)

\* ------------------------------------------------------------------------
\* The test harness (src/test_framework/src/lib.rs): the tests of a module
\* annotated with test_callbacks, each on a thread of its own.
\* ------------------------------------------------------------------------

\* a function of the module: the paths of its attributes, and whether it is
\* an async fn
ItemFn(attrs, asyncness) == [attrs |-> attrs, asyncness |-> asyncness]

\* item_fn.attrs.iter().any(|attr| attr.path.segments.iter().any(|segment|
\* segment.ident == "test"))
is_test(item_fn) ==
    \E attr \in item_fn.attrs : \E i \in 1..Len(attr) : attr[i] = "test"

\* test_count after the loop over the items of the module
RECURSIVE test_count(_)
test_count(items) ==
    IF items = <<>> THEN 0
    ELSE (IF is_test(Head(items)) THEN 1 ELSE 0) + test_count(Tail(items))

\* the wrapper the macro puts around the statements of a function
wrapped_stmts(item_fn) ==
    IF ~is_test(item_fn) THEN "none"
    ELSE IF item_fn.asyncness THEN "run_test_async" ELSE "run_test_sync"

\* The modules: callbacks and helpers without attributes, functions under
\* #[test], #[tokio::test], #[test] with #[should_panic], and functions
\* whose attributes are not test attributes (#[cfg(test)], #[test_case]).
Modules == {
    << ItemFn({}, FALSE),
       ItemFn({<<"tokio", "test">>}, TRUE),
       ItemFn({<<"test_case">>}, FALSE),
       ItemFn({<<"test">>}, FALSE) >>,
    << ItemFn({<<"test">>}, FALSE),
       ItemFn({<<"cfg">>}, FALSE),
       ItemFn({<<"tokio", "test">>}, TRUE),
       ItemFn({<<"test">>, <<"should_panic">>}, FALSE) >> }

\* the test functions of the module of the harness
TestsOf(h) == {i \in DOMAIN h.items : is_test(h.items[i])}

\* The harness of a module when cargo starts its tests: TEST_COUNT,
\* REMAINING_TESTS and BEFORE_ALL_CALL as the macro injects them; calls
\* counts the calls of before_all and after_all and by keeps who made them,
\* after_each_order lists the tests in the order in which their after_each
\* returned, finished in the order in which the tests themselves returned.
Harness(items) ==
    [ items           |-> items,
      TEST_COUNT      |-> test_count(items),
      REMAINING_TESTS |-> test_count(items),
      BEFORE_ALL_CALL |-> "new",
      calls           |-> [before_all |-> 0, after_all |-> 0],
      by              |-> [before_all |-> 0, after_all |-> 0],
      after_each_order |-> <<>>,
      finished        |-> <<>>,
      test            |-> [i \in {j \in DOMAIN items : is_test(items[j])} |->
                            [pc |-> "start", result |-> TRUE,
                             before_each |-> 0, after_each |-> 0]] ]

InitHarness ==
    /\ db = EmptyDb
    /\ now = 0
    /\ config = CfgCache
    /\ signals = 0
    /\ task = [t \in Tasks |-> IdleTask]
    /\ probe \in { Some(Harness(items)) : items \in Modules }
    /\ server = "running"

\* the harness after a step of test i
Stepped(h) ==
    /\ probe' = Some(h)
    /\ UNCHANGED <<db, now, config, signals, task, server>>

\* BEFORE_ALL_CALL.call_once that does not wait for a running call
CallOnce_NoWait(i) ==
    LET h == probe.v
    IN  /\ h.test[i].pc = "start"
        /\ IF h.BEFORE_ALL_CALL = "new"
           THEN Stepped([h EXCEPT !.BEFORE_ALL_CALL = "running",
                                  !.calls.before_all = @ + 1,
                                  !.by.before_all = i,
                                  !.test[i].pc = "before_all"])
           ELSE Stepped([h EXCEPT !.test[i].pc = "before_each"])

\* BEFORE_ALL_CALL.call_once(|| before_all()): the first caller runs the
\* closure, a caller that comes while it runs waits until it is done, a
\* later caller goes on at once.
CallOnce(i) ==
    LET h == probe.v
    IN  /\ h.test[i].pc = "start"
        /\ h.BEFORE_ALL_CALL # "running"
        /\ IF h.BEFORE_ALL_CALL = "new"
           THEN Stepped([h EXCEPT !.BEFORE_ALL_CALL = "running",
                                  !.calls.before_all = @ + 1,
                                  !.by.before_all = i,
                                  !.test[i].pc = "before_all"])
           ELSE Stepped([h EXCEPT !.test[i].pc = "before_each"])

\* before_all() returns and call_once with it
BeforeAllReturns(i) ==
    LET h == probe.v
    IN  /\ h.test[i].pc = "before_all"
        /\ Stepped([h EXCEPT !.BEFORE_ALL_CALL = "done",
                             !.test[i].pc = "before_each"])

\* before_each()
BeforeEach(i) ==
    LET h == probe.v
    IN  /\ h.test[i].pc = "before_each"
        /\ Stepped([h EXCEPT !.test[i].before_each = @ + 1,
                             !.test[i].pc = "body"])

\* catch_unwind(test): the body of the test returns or panics
Body(i) ==
    LET h == probe.v
    IN  /\ h.test[i].pc = "body"
        /\ \E is_ok \in BOOLEAN :
            Stepped([h EXCEPT !.test[i].result = is_ok,
                              !.test[i].pc = "after_each"])

\* after_each()
AfterEach(i) ==
    LET h == probe.v
    IN  /\ h.test[i].pc = "after_each"
        /\ Stepped([h EXCEPT !.test[i].after_each = @ + 1,
                             !.after_each_order = Append(@, i),
                             !.test[i].pc = "fetch_sub"])

\* fetch_sub whose result is compared with 0, as if it were the new value
FetchSub_NewValue(i) ==
    LET h == probe.v
    IN  /\ h.test[i].pc = "fetch_sub"
        /\ Stepped([h EXCEPT !.REMAINING_TESTS = @ - 1,
                             !.test[i].pc = IF h.REMAINING_TESTS = 0
                                            THEN "after_all" ELSE "assert"])

\* REMAINING_TESTS.fetch_sub(1, Relaxed) == 1: one atomic step that returns
\* the value before the subtraction
FetchSub(i) ==
    LET h == probe.v
    IN  /\ h.test[i].pc = "fetch_sub"
        /\ Stepped([h EXCEPT !.REMAINING_TESTS = @ - 1,
                             !.test[i].pc = IF h.REMAINING_TESTS = 1
                                            THEN "after_all" ELSE "assert"])

\* after_all()
AfterAll(i) ==
    LET h == probe.v
    IN  /\ h.test[i].pc = "after_all"
        /\ Stepped([h EXCEPT !.calls.after_all = @ + 1,
                             !.by.after_all = i,
                             !.test[i].pc = "assert"])

\* assert!(result.is_ok()): the test returns, or fails with a panic
AssertResult(i) ==
    LET h == probe.v
    IN  /\ h.test[i].pc = "assert"
        /\ Stepped([h EXCEPT !.finished = Append(@, i),
                             !.test[i].pc = IF h.test[i].result
                                            THEN "passed" ELSE "failed"])

\* The tests run on threads of their own, in any interleaving.
NextHarness ==
    \/ \E i \in TestsOf(probe.v) : CallOnce(i)
    \/ \E i \in TestsOf(probe.v) : BeforeAllReturns(i)
    \/ \E i \in TestsOf(probe.v) : BeforeEach(i)
    \/ \E i \in TestsOf(probe.v) : Body(i)
    \/ \E i \in TestsOf(probe.v) : AfterEach(i)
    \/ \E i \in TestsOf(probe.v) : FetchSub(i)
    \/ \E i \in TestsOf(probe.v) : AfterAll(i)
    \/ \E i \in TestsOf(probe.v) : AssertResult(i)

SpecHarness == InitHarness /\ [][NextHarness]_vars

\* ------------------------------------------------------------------------
\* Properties
\* ------------------------------------------------------------------------

\* the paths of the three administrative endpoints of a config
AdminPaths(proxy_config) ==
    { proxy_config.reload_config_url_path,
      proxy_config.clear_cache_url_path,
      proxy_config.status_url_path }

\* the request the routes stage yields for the inbound request of a task
\* that is not an administrative request, None if it yields none
RoutedOf(cur) ==
    LET r == handle_routes(cur.req.v, cur.cfg.v, World(EmptyDb, 0))
    IN  IF UriPath(cur.req.v.uri) \notin AdminPaths(cur.cfg.v) /\ r.ok
        THEN Some(r.req) ELSE None

\* the entry the store holds for the key of a request, None if it holds none
\* or the bytes do not decode
EntryOf(store, req) ==
    LET key == to_db_key(CacheKey(req))
    IN  IF key \in DOMAIN store THEN Deserialize(store[key]) ELSE None

\* the response with the status, headers and body of an entry
ResponseOf(entry) == MkResponse(entry.status, entry.headers, entry.body)

ReadError == MkResponse(500, NoHeaders, "Cannot read from the cache.")

\* task t runs its pipeline in this step (the body was read)
PipelineStep(t) ==
    /\ task[t].pc = "ingest"
    /\ task'[t].pc # "ingest"
    /\ task'[t].via # "error"

\* task t gets the outcome of its origin request in this step
OriginStep(t) ==
    /\ task[t].pc = "sent"
    /\ task'[t].pc # "sent"

\* C1: with cache_enabled, a routed request whose key has a decodable entry
\* E in the store with now - E.timestamp <= E.validity is answered from the
\* cache with E's status, headers and body and is not sent to the origin
\* (a failed store read answers 500 instead).
C1_FreshHit ==
    [][\A t \in Tasks :
        LET cur == task[t]
            routed == RoutedOf(cur)
            entry == EntryOf(db, routed.v)
        IN  ( /\ PipelineStep(t)
              /\ cur.cfg.v.cache_enabled
              /\ routed.some
              /\ entry.some
              /\ now - entry.v.timestamp <= entry.v.validity )
            => /\ task'[t].pc = "done"
               /\ task'[t].via = "cache"
               /\ task'[t].out.v \in {ResponseOf(entry.v), ReadError}
    ]_vars

\* a request was answered from the cache by an entry whose validity ends now
C1_Witness ==
    \E t \in Tasks :
        /\ task[t].pc = "done"
        /\ task[t].via = "cache"
        /\ LET entry == EntryOf(db, RoutedOf(task[t]).v)
           IN  /\ entry.some
               /\ entry.v.validity > 0
               /\ now = entry.v.timestamp + entry.v.validity
               /\ task[t].out.v = ResponseOf(entry.v)

\* C2: the stale fallback never returns an entry E with now - E.timestamp >
\* cache_stale_threshold_on_fail, and returns an entry whose age equals the
\* threshold (unless the store read fails).
C2_StaleThreshold ==
    [][\A t \in Tasks :
        LET cur == task[t]
            entry == EntryOf(db, cur.routed.v)
            age == now - entry.v.timestamp
            threshold == cur.cfg.v.cache_stale_threshold_on_fail
        IN  ( /\ OriginStep(t)
              /\ task'[t].via = "fallback"
              /\ entry.some )
            => /\ age > threshold => task'[t].out.v # ResponseOf(entry.v)
               /\ age = threshold => task'[t].out.v \in {ResponseOf(entry.v), ReadError}
    ]_vars

\* the fallback returned an entry that is not fresh and whose age equals the
\* threshold
C2_Witness ==
    \E t \in Tasks :
        /\ task[t].pc = "done"
        /\ task[t].via = "fallback"
        /\ LET entry == EntryOf(db, task[t].routed.v)
           IN  /\ entry.some
               /\ now - entry.v.timestamp = task[t].cfg.v.cache_stale_threshold_on_fail
               /\ now > entry.v.timestamp + entry.v.validity
               /\ task[t].out.v = ResponseOf(entry.v)

\* C3: when the origin send errors or the origin's response is not 2xx, the
\* fallback answers: the stored entry if present and stale-usable, 500 "No
\* valid response. Cached response too old." if present but older than the
\* threshold, 500 "No valid response." if absent (a failed store read or an
\* undecodable entry answers its own 500).
C3_Fallback ==
    [][\A t \in Tasks :
        LET cur == task[t]
            key == to_db_key(CacheKey(cur.routed.v))
            entry == EntryOf(db, cur.routed.v)
            failed == \/ ~task'[t].response.some
                      \/ ~(200 <= task'[t].response.v.status
                           /\ task'[t].response.v.status <= 299)
            answer == IF key \notin DOMAIN db
                      THEN MkResponse(500, NoHeaders, "No valid response.")
                      ELSE IF now - entry.v.timestamp
                                <= cur.cfg.v.cache_stale_threshold_on_fail
                      THEN ResponseOf(entry.v)
                      ELSE MkResponse(500, NoHeaders,
                                      "No valid response. Cached response too old.")
        IN  ( /\ OriginStep(t)
              /\ failed
              /\ key \in DOMAIN db => entry.some )
            => /\ task'[t].pc = "done"
               /\ task'[t].via = "fallback"
               /\ task'[t].out.v \in {answer, ReadError}
    ]_vars

\* the fallback found an entry older than the threshold and answered 500
C3_Witness ==
    \E t \in Tasks :
        /\ task[t].pc = "done"
        /\ task[t].via = "fallback"
        /\ LET entry == EntryOf(db, task[t].routed.v)
           IN  /\ entry.some
               /\ now - entry.v.timestamp > task[t].cfg.v.cache_stale_threshold_on_fail
        /\ task[t].out.v = MkResponse(500, NoHeaders,
                                      "No valid response. Cached response too old.")

\* the entry for the request's key is in the store, decodes and is fresh
FreshEntry(store, req, now_timestamp) ==
    LET entry == EntryOf(store, req)
    IN  /\ entry.some
        /\ ~(now_timestamp > entry.v.timestamp + entry.v.validity)

\* C4: with caching enabled, a healthy origin and requests to one resource
\* sent one after another, a request is sent to the origin iff the store
\* holds no entry for its key or the entry is not fresh (now > timestamp +
\* validity), and is served from the cache otherwise; so five requests with
\* one clock jump past the validity after the second make 2 origin requests
\* (and 1 when the clock stands still).
C4_OriginIffNotFresh ==
    /\ [][ LET cur == task["t1"]
               routed == RoutedOf(cur)
           IN  PipelineStep("t1")
               => /\ routed.some
                  /\ task'["t1"].pc = "sent" <=> ~FreshEntry(db, routed.v, now)
                  /\ task'["t1"].pc # "sent"
                       => /\ task'["t1"].via = "cache"
                          /\ task'["t1"].out.v = ResponseOf(EntryOf(db, routed.v).v)
         ]_vars
    /\ [](( /\ probe.v.sent = TestRequests
            /\ task["t1"].pc = "done" )
          => /\ probe.v.clock = "jumped" => probe.v.request_count = 2
             /\ probe.v.clock = "still" => probe.v.request_count = 1)

\* the five requests are answered, the clock was moved past the validity
\* after the second, the origin has counted two requests
C4_Witness ==
    /\ probe.v.sent = TestRequests
    /\ task["t1"].pc = "done"
    /\ probe.v.clock = "jumped"
    /\ probe.v.request_count = 2

\* the validity the claim gives for a response's headers
ClaimedValidity(headers, default_cache_validity) ==
    LET cc == headers.cache_control
    IN  IF /\ cc.some
           /\ cc.v.utf8
           /\ cc.v.parsed.some
           /\ cc.v.parsed.v.max_age.some
           /\ 0 <= cc.v.parsed.v.max_age.v
           /\ cc.v.parsed.v.max_age.v < 2 ^ U32Bits
        THEN cc.v.parsed.v.max_age.v
        ELSE default_cache_validity

C6_ClearedUntilInsert ==
    [][ /\ \A t \in Tasks :
            ( /\ PipelineStep(t)
              /\ task'[t].via = "clear"
              /\ task'[t].out.v = MkResponse(200, NoHeaders, "Cache cleared.") )
            => DOMAIN db' = {}
        /\ \A k \in DOMAIN db' :
            k \notin DOMAIN db
            => \E t \in Tasks :
                /\ task[t].pc = "fork"
                /\ task[t].response_db_key.v = k
                /\ task'[t].pc = "done"
                /\ task'[t].via = "origin"
                /\ task'[t].logged = ""
        /\ \A t \in Tasks :
            LET routed == RoutedOf(task[t])
            IN  ( /\ PipelineStep(t)
                  /\ task[t].cfg.v.cache_enabled
                  /\ routed.some
                  /\ to_db_key(CacheKey(routed.v)) \notin DOMAIN db )
                => \/ task'[t].pc = "sent"
                   \/ task'[t].out.v = ReadError
        /\ \A t \in Tasks :
            ( /\ OriginStep(t)
              /\ task'[t].via = "fallback"
              /\ to_db_key(CacheKey(task[t].routed.v)) \notin DOMAIN db )
            => task'[t].out.v \in {MkResponse(500, NoHeaders, "No valid response."),
                                   ReadError}
      ]_vars

\* a clear-cache request was answered "Cache cleared." and the store holds
\* an entry again: another task has inserted since
C6_Witness ==
    \E t \in Tasks :
        /\ task[t].pc = "done"
        /\ task[t].via = "clear"
        /\ task[t].out.v = MkResponse(200, NoHeaders, "Cache cleared.")
        /\ DOMAIN db # {}

\* C7: a request whose path equals an admin path of its config snapshot is
\* answered by that admin stage (the first in the order reload, clear,
\* status) and goes no further, also when a route matches it; a request
\* whose path is no admin path is answered by no admin stage, publishes no
\* reload signal and clears nothing.
C7_AdminExactPath ==
    [][\A t \in Tasks :
        LET cur == task[t]
            path == UriPath(cur.req.v.uri)
            proxy_config == cur.cfg.v
            stage == IF path = proxy_config.reload_config_url_path THEN "reload"
                     ELSE IF path = proxy_config.clear_cache_url_path THEN "clear"
                     ELSE "status"
        IN  PipelineStep(t)
            => /\ path \in AdminPaths(proxy_config)
                    => /\ task'[t].pc = "done"
                       /\ task'[t].via = stage
                       /\ task'[t].out.v.status = 200
               /\ path \notin AdminPaths(proxy_config)
                    => /\ task'[t].via \notin {"reload", "clear", "status"}
                       /\ signals' = signals
                       /\ db' = db
    ]_vars

\* the status endpoint answered a request that a configured route matches
C7_Witness ==
    \E t \in Tasks :
        /\ task[t].pc = "done"
        /\ task[t].via = "status"
        /\ task[t].out.v = MkResponse(200, NoHeaders, "Proxy is ready.")
        /\ FindRoute(task[t].cfg.v.routes, RouteFrom(task[t].req.v)) # 0

\* C8: a request is sent to the origin only if its path is no admin path,
\* a route prefix matches it, the first matching route does not validate or
\* the validator accepts the suffix, the rewritten URI has a host, and (with
\* caching enabled) the store holds no fresh entry for its key.
C8_SentOnlyIfRouted ==
    [][\A t \in Tasks :
        LET cur == task[t]
            proxy_config == cur.cfg.v
            from == RouteFrom(cur.req.v)
            matching == {i \in 1..Len(proxy_config.routes) :
                            StartsWith(from, proxy_config.routes[i].from)}
            first == CHOOSE i \in matching : \A j \in matching : i <= j
            route == proxy_config.routes[first]
            suffix == TrimStartMatches(from, route.from)
        IN  (task[t].pc = "ingest" /\ task'[t].pc = "sent")
            => /\ UriPath(cur.req.v.uri) \notin AdminPaths(proxy_config)
               /\ matching # {}
               /\ route.validate # Some(FALSE) => validate_request(suffix)
               /\ task'[t].routed.v.uri.authority # <<>>
               /\ proxy_config.cache_enabled
                    => ~FreshEntry(db, task'[t].routed.v, now)
    ]_vars

\* a request through a validating route is on its way to the origin
C8_Witness ==
    \E t \in Tasks :
        /\ task[t].pc = "sent"
        /\ task[t].req.v = GetResource
        /\ task[t].routed.v.uri = MkUri(HttpScheme, <<"h">>, ResourcePath, <<>>)

\* C9: when the body of a 2xx origin response is buffered, the client gets
\* the origin's status, headers and body whether or not the entry could be
\* serialized and inserted; a failure is logged and leaves the store as it
\* was.
C9_WriteFailureSwallowed ==
    [][\A t \in Tasks :
        ( /\ task[t].pc = "fork"
          /\ task'[t].pc = "done"
          /\ task'[t].via = "origin" )
        => /\ task'[t].out = task[t].response
           /\ task'[t].logged # "" => db' = db
    ]_vars

\* the write of the entry failed and the client got the origin's response
C9_Witness ==
    \E t \in Tasks :
        /\ task[t].pc = "done"
        /\ task[t].via = "origin"
        /\ task[t].cfg.v.cache_enabled
        /\ task[t].logged # ""
        /\ task[t].out = task[t].response
        /\ task[t].response_db_key.v \notin DOMAIN db

\* C10: the key of a routed request is the same at cache lookup, at cache
\* insert and at the stale fallback, and any request with the same method,
\* outbound URI and body has that key, whatever its headers, inbound host
\* and path and the route that matched it.
C10_KeyOfMethodUriBody ==
    \A t \in Tasks :
        task[t].routed.some
        => /\ LookupKey(task[t].routed.v) = task[t].response_db_key.v
           /\ FallbackKey(task[t].req_clone.v) = task[t].response_db_key.v
           /\ \A r \in Requests, c \in Configs :
                LET other == RoutedOf([req |-> Some(r), cfg |-> Some(c)])
                IN  ( /\ other.some
                      /\ other.v.method = task[t].routed.v.method
                      /\ other.v.uri = task[t].routed.v.uri
                      /\ other.v.body = task[t].routed.v.body )
                    => to_db_key(CacheKey(other.v)) = task[t].response_db_key.v

\* the fallback answered a request that another request with another host,
\* path, route and header shares its outbound URI with
C10_Witness ==
    \E t \in Tasks :
        /\ task[t].pc = "done"
        /\ task[t].via = "fallback"
        /\ task[t].cfg.v.cache_enabled
        /\ task[t].req.v.headers.other = "y"
        /\ RoutedOf([req |-> Some(GetResource), cfg |-> task[t].cfg]).v.uri
             = task[t].routed.v.uri

\* what the stale fallback answers for a request: the entry when it is
\* stale-usable, else one of the 500 responses
FallbackAnswers(store, req, proxy_config, now_timestamp) ==
    LET key == to_db_key(CacheKey(req))
        entry == EntryOf(store, req)
    IN  { ReadError,
          IF key \notin DOMAIN store
          THEN MkResponse(500, NoHeaders, "No valid response.")
          ELSE IF ~entry.some
          THEN MkResponse(500, NoHeaders, "Cannot deserialize a cached response.")
          ELSE IF now_timestamp - entry.v.timestamp
                    <= proxy_config.cache_stale_threshold_on_fail
          THEN ResponseOf(entry.v)
          ELSE MkResponse(500, NoHeaders,
                          "No valid response. Cached response too old.") }

\* C11: an origin response is accepted iff its status is in 200..=299; a
\* response with another status is not delivered and not cached, with
\* cache_enabled true or false: the stale fallback answers as it does when
\* the send errors; a response with a status in 200..=299 is delivered or
\* goes on to be cached.
C11_AcceptableIff2xx ==
    [][\A t \in Tasks :
        LET cur == task[t]
            response == task'[t].response
            acceptable == 200 <= response.v.status /\ response.v.status <= 299
        IN  (OriginStep(t) /\ response.some)
            => /\ ~acceptable
                    => /\ task'[t].pc = "done"
                       /\ task'[t].via = "fallback"
                       /\ task'[t].out.v # response.v
                       /\ task'[t].out.v
                            \in FallbackAnswers(db, cur.routed.v, cur.cfg.v, now)
                       /\ db' = db
               /\ acceptable
                    => /\ task'[t].via # "fallback"
                       /\ IF cur.cfg.v.cache_enabled
                          THEN task'[t].pc = "fork"
                          ELSE task'[t].pc = "done" /\ task'[t].out = response
    ]_vars

\* with caching disabled the origin answered 300 and the fallback answered
\* that there is no valid response
C11_Witness ==
    \E t \in Tasks :
        /\ task[t].pc = "done"
        /\ task[t].via = "fallback"
        /\ ~task[t].cfg.v.cache_enabled
        /\ task[t].response.some
        /\ task[t].response.v.status = 300
        /\ task[t].out.v = MkResponse(500, NoHeaders, "No valid response.")

\* the status is in 200..=299
Is2xx(status) == 200 <= status /\ status <= 299

\* C12: an entry is inserted only for an origin response with a 2xx status
\* by a request whose config snapshot has cache_enabled; so, from an empty
\* store, every entry of the store has a 2xx status in every reachable
\* state, and every response served from the cache, by a fresh hit or by
\* the stale fallback, has a 2xx status.
C12_OnlyValidCached ==
    /\ [](\A k \in DOMAIN db :
            /\ Deserialize(db[k]).some
            /\ Is2xx(Deserialize(db[k]).v.status))
    /\ [][\A k \in DOMAIN db' :
            (k \notin DOMAIN db \/ db'[k] # db[k])
            => \E t \in Tasks :
                /\ task[t].pc = "fork"
                /\ task'[t].pc = "done"
                /\ task[t].response_db_key.v = k
                /\ task[t].cfg.v.cache_enabled
                /\ Is2xx(task[t].response.v.status)
                /\ ResponseOf(Deserialize(db'[k]).v) = task[t].response.v
         ]_vars
    /\ [][\A t \in Tasks :
            ( /\ task[t].pc # "done"
              /\ task'[t].pc = "done"
              /\ task'[t].via \in {"cache", "fallback"}
              /\ task'[t].out.v.status # 500 )
            => /\ Is2xx(task'[t].out.v.status)
               /\ task'[t].out.v = ResponseOf(EntryOf(db, RoutedOf(task[t]).v).v)
         ]_vars

\* the origin answered 500 and the fallback served the 2xx entry the store
\* still holds for the key
C12_Witness ==
    \E t \in Tasks :
        /\ task[t].pc = "done"
        /\ task[t].via = "fallback"
        /\ task[t].cfg.v.cache_enabled
        /\ task[t].response.some
        /\ task[t].response.v.status = 500
        /\ EntryOf(db, task[t].routed.v).some
        /\ task[t].out.v = ResponseOf(EntryOf(db, task[t].routed.v).v)
        /\ Is2xx(task[t].out.v.status)

DecodeError == MkResponse(500, NoHeaders, "Cannot deserialize a cached response.")

\* C13: at the cache lookup of a routed request with cache_enabled, a miss
\* and a decodable entry that is not fresh pass the request on unchanged to
\* the origin dispatch; an entry that does not decode answers 500 "Cannot
\* deserialize a cached response." and a store read error answers 500
\* "Cannot read from the cache.", and in both cases nothing is sent to the
\* origin.
C13_LookupOutcomes ==
    [][\A t \in Tasks :
        LET cur == task[t]
            routed == RoutedOf(cur)
            key == to_db_key(CacheKey(routed.v))
            entry == EntryOf(db, routed.v)
            read_failed == /\ task'[t].pc = "done"
                           /\ task'[t].via = "cache"
                           /\ task'[t].out.v = ReadError
        IN  ( /\ PipelineStep(t)
              /\ cur.cfg.v.cache_enabled
              /\ routed.some )
            => /\ (key \notin DOMAIN db
                   \/ (entry.some /\ now > entry.v.timestamp + entry.v.validity))
                    => \/ /\ task'[t].pc = "sent"
                          /\ task'[t].routed = routed
                       \/ read_failed
               /\ (key \in DOMAIN db /\ ~entry.some)
                    => \/ /\ task'[t].pc = "done"
                          /\ task'[t].via = "cache"
                          /\ task'[t].out.v = DecodeError
                       \/ read_failed
               /\ db' = db
    ]_vars

\* the lookup found an entry that does not decode and answered 500
C13_Witness ==
    \E t \in Tasks :
        /\ task[t].pc = "done"
        /\ task[t].via = "cache"
        /\ task[t].cfg.v.cache_enabled
        /\ to_db_key(CacheKey(RoutedOf(task[t]).v)) \in DOMAIN db
        /\ ~EntryOf(db, RoutedOf(task[t]).v).some
        /\ task[t].out.v = DecodeError

\* C14: the stale fallback reads the store whatever cache_enabled is: with
\* cache_enabled false in the request's snapshot, a failed send or a
\* response that is not 2xx for a request whose key has a stale-usable
\* entry is answered with that entry (unless the store read fails).
C14_FallbackWhenDisabled ==
    [][\A t \in Tasks :
        LET cur == task[t]
            entry == EntryOf(db, cur.routed.v)
            failed == \/ ~task'[t].response.some
                      \/ ~Is2xx(task'[t].response.v.status)
        IN  ( /\ OriginStep(t)
              /\ ~cur.cfg.v.cache_enabled
              /\ failed
              /\ entry.some
              /\ now - entry.v.timestamp <= cur.cfg.v.cache_stale_threshold_on_fail )
            => /\ task'[t].pc = "done"
               /\ task'[t].via = "fallback"
               /\ task'[t].out.v \in {ResponseOf(entry.v), ReadError}
    ]_vars

\* with caching disabled in its snapshot, a request whose send failed was
\* answered with the entry written while caching was enabled
C14_Witness ==
    \E t \in Tasks :
        /\ task[t].pc = "done"
        /\ task[t].via = "fallback"
        /\ ~task[t].cfg.v.cache_enabled
        /\ ~task[t].response.some
        /\ EntryOf(db, task[t].routed.v).some
        /\ task[t].out.v = ResponseOf(EntryOf(db, task[t].routed.v).v)

\* the indexes of the routes whose from is a prefix of host + path + query
\* of the request
MatchingRoutes(req, proxy_config) ==
    {i \in 1..Len(proxy_config.routes) :
        StartsWith(RouteHost(req) \o UriPath(req.uri) \o req.uri.query,
                   proxy_config.routes[i].from)}

\* the earliest of the matching routes in the order of the configuration
EarliestRoute(req, proxy_config) ==
    LET matching == MatchingRoutes(req, proxy_config)
    IN  proxy_config.routes[CHOOSE i \in matching : \A j \in matching : i <= j]

\* C15: the router uses the first route, in configuration order, whose from
\* is a prefix of host + path + query: the request is validated as that
\* route says and rewritten to that route's origin, also when a later route
\* matches with a longer prefix.
C15_FirstRouteWins ==
    [][\A t \in Tasks :
        LET cur == task[t]
            req == cur.req.v
            route == EarliestRoute(req, cur.cfg.v)
            suffix == TrimStartMatches(RouteFrom(req), route.from)
            rejected == route.validate # Some(FALSE) /\ ~validate_request(suffix)
        IN  ( /\ PipelineStep(t)
              /\ UriPath(req.uri) \notin AdminPaths(cur.cfg.v)
              /\ MatchingRoutes(req, cur.cfg.v) # {} )
            => /\ rejected
                    <=> task'[t].out = Some(MkResponse(400, NoHeaders, "Invalid request."))
               /\ task'[t].pc = "sent"
                    => /\ task'[t].routed.v.uri.scheme = route.to.scheme
                       /\ task'[t].routed.v.uri.authority = route.to.authority
                       /\ task'[t].routed.v.uri.path
                            = <<"/">> \o TrimStartMatches(suffix, <<"/">>)
                       /\ task'[t].routed.v.headers.host = UriHost(route.to)
    ]_vars

\* the request went to the origin of the first route although the second
\* route matches it with a longer prefix
C15_Witness ==
    \E t \in Tasks :
        /\ task[t].pc = "sent"
        /\ task[t].cfg.v.routes = <<RouteShort, RouteLong>>
        /\ MatchingRoutes(task[t].req.v, task[t].cfg.v) = {1, 2}
        /\ task[t].routed.v.uri = MkUri(HttpScheme, <<"h">>, ResourcePath, <<>>)

Landing == MkResponse(200, NoHeaders, "landing.html")

NotFound ==
    MkResponse(404, NoHeaders, "404. The requested URL was not found on this server.")

InvalidRequest == MkResponse(400, NoHeaders, "Invalid request.")

\* C17: for the route that matches, with validate absent or true, a suffix
\* the validator rejects is answered 400 "Invalid request." and the request
\* is not sent on; with validate = false the same suffix is not answered
\* 400: the request is rewritten to the route's origin and passed on to the
\* cache lookup and the origin.
C17_ValidateFlag ==
    [][\A t \in Tasks :
        LET cur == task[t]
            req == cur.req.v
            route == EarliestRoute(req, cur.cfg.v)
            suffix == TrimStartMatches(RouteFrom(req), route.from)
        IN  ( /\ PipelineStep(t)
              /\ UriPath(req.uri) \notin AdminPaths(cur.cfg.v)
              /\ MatchingRoutes(req, cur.cfg.v) # {}
              /\ ~validate_request(suffix) )
            => /\ route.validate \in {None, Some(TRUE)}
                    => /\ task'[t].pc = "done"
                       /\ task'[t].via = "routes"
                       /\ task'[t].out.v = InvalidRequest
                       /\ ~task'[t].routed.some
               /\ route.validate = Some(FALSE)
                    => /\ task'[t].out # Some(InvalidRequest)
                       /\ task'[t].via \in {"", "cache"}
                       /\ ~cur.cfg.v.cache_enabled
                            => /\ task'[t].pc = "sent"
                               /\ task'[t].routed.v.uri
                                    = MkUri(route.to.scheme, route.to.authority,
                                            <<"/">> \o TrimStartMatches(suffix, <<"/">>),
                                            <<>>)
    ]_vars

\* a request with a suffix the validator rejects went on to the origin
\* through a route with validate = false
C17_Witness ==
    \E t \in Tasks :
        /\ task[t].pc = "sent"
        /\ EarliestRoute(task[t].req.v, task[t].cfg.v).validate = Some(FALSE)
        /\ ~validate_request(TrimStartMatches(RouteFrom(task[t].req.v),
                EarliestRoute(task[t].req.v, task[t].cfg.v).from))
        /\ task[t].routed.v.uri = MkUri(HttpScheme, <<"h">>, <<"/", "x">>, <<>>)

\* C19: a request whose path equals status_url_path (and no other admin
\* path) is answered 200 "Proxy is ready."; it is not routed and not sent
\* to an origin, the store is neither read nor written and no reload signal
\* is published, whatever routes match the request.
C19_StatusFrame ==
    [][\A t \in Tasks :
        LET cur == task[t]
            path == UriPath(cur.req.v.uri)
        IN  ( /\ PipelineStep(t)
              /\ path = cur.cfg.v.status_url_path
              /\ path # cur.cfg.v.reload_config_url_path
              /\ path # cur.cfg.v.clear_cache_url_path )
            => /\ task'[t] = [cur EXCEPT
                                !.pc = "done",
                                !.via = "status",
                                !.out = Some(MkResponse(200, NoHeaders, "Proxy is ready."))]
               /\ db' = db
               /\ signals' = signals
               /\ config' = config
    ]_vars

\* the status request was answered while the store holds entries, caching
\* is enabled and a route matches the request
C19_Witness ==
    \E t \in Tasks :
        /\ task[t].pc = "done"
        /\ task[t].via = "status"
        /\ task[t].out.v = MkResponse(200, NoHeaders, "Proxy is ready.")
        /\ task[t].cfg.v.cache_enabled
        /\ MatchingRoutes(task[t].req.v, task[t].cfg.v) # {}
        /\ DOMAIN db # {}

\* C20: a request whose path equals reload_config_url_path publishes one
\* reload signal and is answered 200 "Proxy config reload scheduled." in
\* the same step, before the reload task has taken the signal: the config
\* is not reloaded by the request; and the reload task, whether its load
\* succeeds or fails, changes no answer.
C20_ReloadScheduled ==
    [][ /\ \A t \in Tasks :
            LET cur == task[t]
            IN  ( /\ PipelineStep(t)
                  /\ UriPath(cur.req.v.uri) = cur.cfg.v.reload_config_url_path )
                => /\ signals' = signals + 1
                   /\ task'[t] = [cur EXCEPT
                            !.pc = "done",
                            !.via = "reload",
                            !.out = Some(MkResponse(200, NoHeaders,
                                            "Proxy config reload scheduled."))]
                   /\ config' = config
                   /\ db' = db
        /\ signals' < signals => task' = task
        /\ config' # config => signals' = signals - 1
      ]_vars

\* the reload request was answered and its signal still waits for the
\* reload task
C20_Witness ==
    \E t \in Tasks :
        /\ task[t].pc = "done"
        /\ task[t].via = "reload"
        /\ task[t].out.v = MkResponse(200, NoHeaders, "Proxy config reload scheduled.")
        /\ signals = 1
        /\ config = task[t].cfg.v

\* C21: when the reload task takes a signal and loading the configuration
\* fails, the shared config snapshot stays as it is; when loading succeeds
\* the shared snapshot becomes the loaded config; a request that starts
\* takes the shared snapshot of that moment.
C21_ReloadOutcome ==
    [][ /\ signals' < signals
            => /\ ~probe'.v.loaded.some => config' = config
               /\ probe'.v.loaded.some => config' = probe'.v.loaded.v
        /\ signals' >= signals => config' = config
        /\ \A t \in Tasks :
            (task[t].pc # "ingest" /\ task'[t].pc = "ingest")
            => task'[t].cfg = Some(config)
      ]_vars

\* a request started after a reload that failed and has the snapshot the
\* reload left in place
C21_Witness ==
    \E t \in Tasks :
        /\ probe.some
        /\ ~probe.v.loaded.some
        /\ task[t].pc = "ingest"
        /\ task[t].cfg = Some(config)
        /\ config = CfgNoCache

\* C22: a request takes one config snapshot when it starts and keeps it;
\* the admin path it is checked against, the route it is rewritten by,
\* cache_enabled at the lookup and at the insert, the default validity of
\* the entry it inserts and the threshold of its stale fallback are those
\* of its snapshot, whatever the shared snapshot has become by a reload.
C22_OneSnapshot ==
    [][\A t \in Tasks :
        LET cur == task[t]
            snapshot == cur.cfg.v
            key == cur.response_db_key.v
            entry == EntryOf(db, cur.routed.v)
        IN  /\ (cur.pc \in {"ingest", "sent", "fork"}) => task'[t].cfg = cur.cfg
            /\ PipelineStep(t)
                => /\ UriPath(cur.req.v.uri) = snapshot.status_url_path
                        <=> task'[t].via = "status"
                   /\ task'[t].pc = "sent"
                        => task'[t].routed.v.uri.authority
                             = EarliestRoute(cur.req.v, snapshot).to.authority
                   /\ task'[t].via = "cache" => snapshot.cache_enabled
                   /\ (task'[t].pc = "sent" /\ snapshot.cache_enabled)
                        => ~FreshEntry(db, task'[t].routed.v, now)
            /\ (OriginStep(t) /\ task'[t].response.some)
                => (task'[t].pc = "fork" <=> snapshot.cache_enabled)
            /\ (OriginStep(t) /\ ~task'[t].response.some /\ entry.some)
                => (task'[t].out.v = ResponseOf(entry.v)
                    <=> now - entry.v.timestamp
                          <= snapshot.cache_stale_threshold_on_fail)
            /\ (cur.pc = "fork" /\ task'[t].pc = "done")
                => /\ key \in DOMAIN db'
                   /\ Deserialize(db'[key]).v.validity
                        = snapshot.default_cache_validity
    ]_vars

\* a request inserted its entry with the default validity of its snapshot
\* after a reload had replaced the shared snapshot by one with caching
\* disabled and another default validity
C22_Witness ==
    \E t \in Tasks :
        /\ task[t].pc = "done"
        /\ task[t].via = "origin"
        /\ task[t].cfg.v = CfgCache
        /\ config = CfgMoved
        /\ EntryOf(db, task[t].routed.v).some
        /\ EntryOf(db, task[t].routed.v).v.timestamp = now
        /\ EntryOf(db, task[t].routed.v).v.validity
             = CfgCache.default_cache_validity

\* C23: nothing locks a key: requests with the same key may both be on
\* their way to the origin and both insert; every insert replaces what the
\* store holds for the key by the complete entry of the inserting request
\* (the status, headers and body of its origin response, the time of the
\* insert, the validity), and nothing else changes the value of a key, so
\* the store holds the entry of the insert performed last.
C23_LastWriteWins ==
    [][ /\ \A t \in Tasks :
            LET cur == task[t]
                key == cur.response_db_key.v
            IN  ( /\ cur.pc = "fork"
                  /\ task'[t].pc = "done"
                  /\ task'[t].via = "origin"
                  /\ task'[t].logged = "" )
                => /\ key \in DOMAIN db'
                   /\ Deserialize(db'[key])
                        = Some(CacheValue(cur.response.v.status,
                                          cur.response.v.headers,
                                          cur.response.v.body, now,
                                          ClaimedValidity(cur.response.v.headers,
                                              cur.cfg.v.default_cache_validity)))
                   /\ \A k \in DOMAIN db \ {key} : k \in DOMAIN db' /\ db'[k] = db[k]
        /\ \A k \in DOMAIN db :
            (k \in DOMAIN db' /\ db'[k] # db[k])
            => \E t \in Tasks :
                /\ task[t].pc = "fork"
                /\ task'[t].pc = "done"
                /\ task[t].response_db_key.v = k
      ]_vars

\* two requests with the same key both got a response of the origin and
\* both inserted; the store holds the entry of one of them, whose response
\* is not the other's
C23_Witness ==
    /\ task["t1"].pc = "done" /\ task["t1"].via = "origin" /\ task["t1"].logged = ""
    /\ task["t2"].pc = "done" /\ task["t2"].via = "origin" /\ task["t2"].logged = ""
    /\ task["t1"].cfg.v.cache_enabled
    /\ task["t2"].cfg.v.cache_enabled
    /\ task["t1"].response_db_key = task["t2"].response_db_key
    /\ task["t1"].response # task["t2"].response
    /\ ResponseOf(EntryOf(db, task["t2"].routed.v).v) = task["t2"].response.v

\* C24: an entry is inserted in one step, after the body of the origin's
\* response is buffered: every entry of the store has the whole body of an
\* origin response; when the buffering fails, or the request is cancelled
\* before the insert, the store stays as it is, a prior entry of the key
\* included.
C24_InsertAfterBuffering ==
    /\ [](\A k \in DOMAIN db :
            /\ Deserialize(db[k]).some
            /\ Deserialize(db[k]).v.body \in {r.body : r \in OriginResponses})
    /\ [][\A t \in Tasks :
            /\ (task[t].pc = "fork" /\ task'[t].via = "error") => db' = db
            /\ (task[t].pc # "done" /\ task'[t].via = "cancelled") => db' = db
            /\ (task[t].pc \in {"sent", "fork"} /\ db' # db)
                => /\ task[t].pc = "fork"
                   /\ task'[t].pc = "done"
                   /\ task'[t].out = task[t].response
         ]_vars

\* a request was cancelled after the origin had answered it, before the
\* insert, and the store holds the prior entry of its key
C24_Witness ==
    \E t \in Tasks :
        /\ task[t].pc = "done"
        /\ task[t].via = "cancelled"
        /\ task[t].response.some
        /\ EntryOf(db, task[t].routed.v).some
        /\ ResponseOf(EntryOf(db, task[t].routed.v).v) # task[t].response.v

\* C25: after the shutdown signal the server accepts no request; the
\* requests under way finish, then the store is flushed, then the
\* on_server_stop callback is called, in this order; while the store is
\* being flushed and afterwards no request is under way.
C25_ShutdownOrder ==
    /\ [](server \in {"flushing", "flushed", "stopped"}
            => \A t \in Tasks : task[t].pc \in {"idle", "done"})
    /\ [][ /\ server' # server
                => <<server, server'>> \in { <<"running", "draining">>,
                                             <<"draining", "flushing">>,
                                             <<"flushing", "flushed">>,
                                             <<"flushed", "stopped">> }
           /\ server # "running"
                => \A t \in Tasks : task'[t].pc = "ingest" => task[t].pc = "ingest"
         ]_vars

\* the callback was called after the two requests had finished, one of
\* them by an insert into the store, the other by the stale fallback
C25_Witness ==
    /\ server = "stopped"
    /\ task["t1"].pc = "done"
    /\ task["t1"].via = "origin"
    /\ task["t2"].pc = "done"
    /\ task["t2"].via = "fallback"
    /\ DOMAIN db # {}

\* C26: a request whose path is the clear_cache_url_path of its snapshot
\* (and not the reload path, which is handled before) either empties the
\* store and is answered 200 "Cache cleared.", or, the store clear having
\* failed, is answered with an error status (4xx or 5xx) and never with a
\* success status.
C26_ClearAnswer ==
    [][ \A t \in Tasks :
            ( /\ PipelineStep(t)
              /\ UriPath(task[t].req.v.uri) = task[t].cfg.v.clear_cache_url_path
              /\ UriPath(task[t].req.v.uri) # task[t].cfg.v.reload_config_url_path )
            => /\ task'[t].via = "clear"
               /\ \/ /\ task'[t].out.v = MkResponse(200, NoHeaders, "Cache cleared.")
                     /\ DOMAIN db' = {}
                  \/ /\ task'[t].out.v.status \in 400..599
                     /\ db' = db
      ]_vars

strip_prefix(s, p) == IF StartsWith(s, p) THEN DropChars(s, Len(p)) ELSE s

\* C28: for a request that is matched by a route and admissible, the
\* outbound URI is the text of route.to followed by the suffix (host + path
\* + query without the matched prefix) with its leading slashes trimmed,
\* the Host header is the host of the outbound URI, and method, body and
\* the other headers are those of the inbound request.
C28_OutboundUri ==
    [][\A t \in Tasks :
        LET cur == task[t]
            req == cur.req.v
            route == EarliestRoute(req, cur.cfg.v)
            suffix == strip_prefix(RouteFrom(req), route.from)
            outbound == ParseUri(UriDisplay(route.to)
                                 \o TrimStartMatches(suffix, <<"/">>))
        IN  ( /\ PipelineStep(t)
              /\ MatchingRoutes(req, cur.cfg.v) # {}
              /\ RoutedOf(cur).some )
            => /\ RoutedOf(cur).v.uri = outbound
               /\ RoutedOf(cur).v.headers.host = UriHost(outbound)
               /\ RoutedOf(cur).v.headers.other = req.headers.other
               /\ RoutedOf(cur).v.method = req.method
               /\ RoutedOf(cur).v.body = req.body
               /\ task'[t].pc = "sent" => task'[t].routed = RoutedOf(cur)
    ]_vars

InvalidTarget == MkResponse(500, NoHeaders, "Cannot route to invalid URI.")

TargetWithoutHost == MkResponse(500, NoHeaders, "Cannot route to URI without host.")

\* C29: when the text composed for the outbound URI of a matched and
\* admissible request does not parse as a URI the router answers 500
\* "Cannot route to invalid URI."; when it parses to a URI without host the
\* router answers 500 "Cannot route to URI without host."; in both cases
\* the request is not sent to an origin and the store is neither read nor
\* written (a failing store read changes nothing).
C29_BadTarget ==
    [][\A t \in Tasks :
        LET cur == task[t]
            req == cur.req.v
            route == EarliestRoute(req, cur.cfg.v)
            suffix == TrimStartMatches(RouteFrom(req), route.from)
            composed == ParseUri(UriDisplay(route.to)
                                 \o TrimStartMatches(suffix, <<"/">>))
        IN  ( /\ PipelineStep(t)
              /\ UriPath(req.uri) \notin AdminPaths(cur.cfg.v)
              /\ MatchingRoutes(req, cur.cfg.v) # {}
              /\ route.validate = Some(FALSE) \/ validate_request(suffix)
              /\ \/ composed = InvalidUri
                 \/ UriHost(composed) = <<>> )
            => /\ task'[t].pc = "done"
               /\ task'[t].via = "routes"
               /\ task'[t].out.v = IF composed = InvalidUri
                                   THEN InvalidTarget ELSE TargetWithoutHost
               /\ ~task'[t].routed.some
               /\ db' = db
    ]_vars

\* a request whose outbound URI does not parse was answered 500 while the
\* store holds an entry of an earlier request
C29_Witness ==
    /\ task["t1"].pc = "done"
    /\ task["t1"].req.v = Get(<<"p">>, <<"/", "v">> \o ResourcePath)
    /\ task["t1"].out = Some(InvalidTarget)
    /\ DOMAIN db # {}

C31_PrefixRemovedOnce ==
    [][\A t \in Tasks :
        LET cur == task[t]
            req == cur.req.v
            route == EarliestRoute(req, cur.cfg.v)
            suffix == strip_prefix(RouteFrom(req), route.from)
        IN  ( /\ PipelineStep(t)
              /\ UriPath(req.uri) \notin AdminPaths(cur.cfg.v)
              /\ MatchingRoutes(req, cur.cfg.v) # {} )
            => /\ task'[t].out = Some(InvalidRequest)
                    <=> (route.validate # Some(FALSE) /\ ~validate_request(suffix))
               /\ task'[t].pc = "sent"
                    => UriDisplay(task'[t].routed.v.uri)
                         = UriDisplay(route.to) \o TrimStartMatches(suffix, <<"/">>)
    ]_vars

\* a header value that is UTF-8 text
IsUtf8(value) == \A i \in 1..Len(value) : value[i] # "0xFF"

\* the routes whose from is a prefix of host + path + query for a host
MatchedWith(host, req, proxy_config) ==
    {i \in 1..Len(proxy_config.routes) :
        StartsWith(host \o UriPath(req.uri) \o req.uri.query,
                   proxy_config.routes[i].from)}

\* the request of task t is matched, in this step of its pipeline, by
\* exactly the routes in matched
RoutedAsMatched(t, matched) ==
    /\ matched = {} => /\ task'[t].pc = "done"
                       /\ task'[t].out \in {Some(Landing), Some(NotFound)}
    /\ matched # {}
        => LET route == task[t].cfg.v.routes[CHOOSE i \in matched : \A j \in matched : i <= j]
           IN  /\ task'[t].out \notin {Some(Landing), Some(NotFound)}
               /\ RoutedOf(task[t]).some
               /\ RoutedOf(task[t]).v.uri.authority = route.to.authority

\* C32 as the specification states it: the routes are matched against host
\* + path + query, the host being the URI's host, else the Host header if
\* it is UTF-8, else empty; a route whose from starts with "/" matches only
\* requests without URI host and without a Host header that is UTF-8.
C32_HostOfUtf8Header ==
    [][\A t \in Tasks :
        LET cur == task[t]
            req == cur.req.v
            host == IF req.uri.authority # <<>> THEN UriHost(req.uri)
                    ELSE IF IsUtf8(req.headers.host) THEN req.headers.host
                    ELSE <<>>
            matched == MatchedWith(host, req, cur.cfg.v)
        IN  ( /\ PipelineStep(t)
              /\ UriPath(req.uri) \notin AdminPaths(cur.cfg.v) )
            => /\ RoutedAsMatched(t, matched)
               /\ ( /\ RoutedOf(cur).some
                    /\ RoutedOf(cur).v.uri.authority = PathRoute.to.authority )
                  => /\ req.uri.authority = <<>>
                     /\ req.headers.host = <<>> \/ ~IsUtf8(req.headers.host)
    ]_vars

\* C32, amended: the routes are matched against host + path + query, the
\* host being the URI's host, else the Host header if it is visible ASCII
\* (HeaderValue::to_str), else empty; a route whose from starts with "/"
\* matches only requests without URI host whose Host header is absent or
\* empty, is not visible ASCII, or itself starts with "/".
C32_HostOfRequest ==
    [][\A t \in Tasks :
        LET cur == task[t]
            req == cur.req.v
            ascii == \A i \in 1..Len(req.headers.host) :
                        req.headers.host[i] \notin NonAsciiBytes
            host == IF req.uri.authority # <<>> THEN UriHost(req.uri)
                    ELSE IF ascii THEN req.headers.host
                    ELSE <<>>
            matched == MatchedWith(host, req, cur.cfg.v)
        IN  ( /\ PipelineStep(t)
              /\ UriPath(req.uri) \notin AdminPaths(cur.cfg.v) )
            => /\ RoutedAsMatched(t, matched)
               /\ ( /\ RoutedOf(cur).some
                    /\ RoutedOf(cur).v.uri.authority = PathRoute.to.authority )
                  => /\ req.uri.authority = <<>>
                     /\ \/ req.headers.host = <<>>
                        \/ ~ascii
                        \/ req.headers.host[1] = "/"
    ]_vars

\* a request with the host z in its URI and the Host header p went to the
\* origin of the route for z
C32_Witness ==
    /\ task["t1"].pc = "sent"
    /\ task["t1"].req.v.uri.authority = <<"z">>
    /\ task["t1"].req.v.headers.host = <<"p">>
    /\ task["t1"].routed.v.uri.authority = HostRoute.to.authority

\* C33: when the snapshot of a request has cache_enabled = false, the
\* request, once routed, is sent to the origin whatever the store holds
\* (also a fresh entry for its key, also when a store read would fail), and
\* a 2xx response of the origin is returned as it is; neither step changes
\* the store.
C33_DisabledBypass ==
    [][\A t \in Tasks :
        /\ ( /\ PipelineStep(t)
             /\ ~task[t].cfg.v.cache_enabled
             /\ RoutedOf(task[t]).some )
           => /\ task'[t].pc = "sent"
              /\ task'[t].routed = RoutedOf(task[t])
              /\ db' = db
        /\ ( /\ OriginStep(t)
             /\ ~task[t].cfg.v.cache_enabled )
           => /\ task'[t].pc = "done"
              /\ db' = db
              /\ ( /\ task'[t].response.some
                   /\ Is2xx(task'[t].response.v.status) )
                 => /\ task'[t].via = "origin"
                    /\ task'[t].out = task'[t].response
    ]_vars

\* a request whose snapshot has caching disabled got the origin's response
\* while the store holds a fresh entry for its key
C33_Witness ==
    \E t \in Tasks :
        /\ task[t].pc = "done"
        /\ task[t].via = "origin"
        /\ ~task[t].cfg.v.cache_enabled
        /\ FreshEntry(db, task[t].routed.v, now)

\* C34: the stages of the pipeline run in the order reload, clear, status,
\* routes, cache lookup, and the first stage that answers ends the
\* pipeline: a path that equals several administrative paths is handled by
\* the earliest of their stages only (reload before clear before status),
\* an administrative path is not routed nor looked up, and a request the
\* router answers is not looked up.
C34_StageOrder ==
    [][\A t \in Tasks :
        LET cur == task[t]
            path == UriPath(cur.req.v.uri)
            proxy_config == cur.cfg.v
        IN  PipelineStep(t)
            => IF path = proxy_config.reload_config_url_path
               THEN /\ task'[t].pc = "done"
                    /\ task'[t].via = "reload"
                    /\ task'[t].out = Some(MkResponse(200, NoHeaders,
                                             "Proxy config reload scheduled."))
                    /\ signals' = signals + 1
                    /\ db' = db
               ELSE IF path = proxy_config.clear_cache_url_path
               THEN /\ task'[t].pc = "done"
                    /\ task'[t].via = "clear"
                    /\ signals' = signals
                    /\ \/ /\ task'[t].out.v.body = "Cache cleared."
                          /\ DOMAIN db' = {}
                       \/ /\ task'[t].out.v.body = "Cache clearing failed."
                          /\ db' = db
               ELSE IF path = proxy_config.status_url_path
               THEN /\ task'[t].pc = "done"
                    /\ task'[t].via = "status"
                    /\ task'[t].out = Some(MkResponse(200, NoHeaders, "Proxy is ready."))
                    /\ signals' = signals
                    /\ db' = db
               ELSE /\ signals' = signals
                    /\ db' = db
                    /\ IF handle_routes(cur.req.v, proxy_config, World(EmptyDb, 0)).ok
                       THEN \/ task'[t].pc = "sent"
                            \/ task'[t].via = "cache"
                       ELSE /\ task'[t].pc = "done"
                            /\ task'[t].via = "routes"
    ]_vars

\* with the reload path also configured as clear path and as status path, a
\* request to it scheduled a reload and the store still holds its entry
C34_Witness ==
    /\ task["t1"].pc = "done"
    /\ task["t1"].via = "reload"
    /\ task["t1"].cfg.v.clear_cache_url_path = task["t1"].cfg.v.reload_config_url_path
    /\ task["t1"].cfg.v.status_url_path = task["t1"].cfg.v.reload_config_url_path
    /\ signals = 1
    /\ DOMAIN db # {}

\* C35: the timestamp of an entry is the clock value at the insert, which
\* follows the buffering of the response body, and its validity is decided
\* at the insert with the snapshot of the inserting request; an entry is
\* not rewritten afterwards except by an insert for its key. A lookup
\* judges freshness with the validity stored in the entry, whatever the
\* default validity of the snapshot, and the stale fallback judges age with
\* the threshold of the snapshot of its request.
C35_EntryTimes ==
    [][\A t \in Tasks :
        LET cur == task[t]
            routed == RoutedOf(cur)
            entry == EntryOf(db, routed.v)
        IN  /\ ( /\ cur.pc = "fork"
                 /\ task'[t].pc = "done"
                 /\ task'[t].via = "origin"
                 /\ task'[t].logged = "" )
               => LET written == Deserialize(db'[cur.response_db_key.v])
                  IN  /\ written.some
                      /\ written.v.timestamp = now
                      /\ written.v.validity
                           = ClaimedValidity(cur.response.v.headers,
                                             cur.cfg.v.default_cache_validity)
            /\ \A k \in DOMAIN db \cap DOMAIN db' :
                db'[k] # db[k]
                => \E u \in Tasks : /\ task[u].pc = "fork"
                                    /\ task[u].response_db_key.v = k
            /\ ( /\ PipelineStep(t)
                 /\ cur.cfg.v.cache_enabled
                 /\ routed.some
                 /\ entry.some )
               => IF now <= entry.v.timestamp + entry.v.validity
                  THEN /\ task'[t].via = "cache"
                       /\ task'[t].out = Some(ResponseOf(entry.v))
                  ELSE task'[t].pc = "sent"
            /\ ( /\ OriginStep(t)
                 /\ task'[t].via = "fallback"
                 /\ entry.some )
               => ( task'[t].out = Some(ResponseOf(entry.v))
                    <=> now - entry.v.timestamp
                          <= cur.cfg.v.cache_stale_threshold_on_fail )
    ]_vars

\* a request found the entry of its key not fresh and went to the origin,
\* although the entry would be fresh under the default validity of the
\* request's snapshot; the entry was written after the response had arrived
C35_Witness ==
    /\ task["t1"].pc = "sent"
    /\ task["t1"].cfg.v.default_cache_validity = 1
    /\ probe.some
    /\ LET entry == EntryOf(db, task["t1"].routed.v)
       IN  /\ entry.some
           /\ entry.v.validity = 0
           /\ entry.v.timestamp = 1
           /\ entry.v.timestamp > probe.v.arrived
           /\ now = 2

\* C36: the store changes only by the insert of a request task that got a
\* 2xx response with caching enabled, which writes the entry of its key and
\* no other, and by a successful clear-cache request, which empties it. A
\* cache lookup, whatever it finds, and the handling of the origin's
\* outcome, the stale fallback included, leave the store as it is.
C36_StoreFrame ==
    [][ /\ db' # db
            => \E t \in Tasks :
                \/ /\ PipelineStep(t)
                   /\ task'[t].via = "clear"
                   /\ db' = EmptyDb
                \/ /\ task[t].pc = "fork"
                   /\ task'[t].via = "origin"
                   /\ task[t].cfg.v.cache_enabled
                   /\ Is2xx(task[t].response.v.status)
                   /\ DOMAIN db' = DOMAIN db \cup {task[t].response_db_key.v}
                   /\ \A k \in DOMAIN db :
                        k # task[t].response_db_key.v => db'[k] = db[k]
        /\ \A t \in Tasks :
            /\ (PipelineStep(t) /\ task'[t].via # "clear") => db' = db
            /\ OriginStep(t) => db' = db
      ]_vars

\* the stale fallback answered with an entry that is not fresh any more,
\* and the entry still has the timestamp of its insert
C36_Witness ==
    \E t \in Tasks :
        /\ task[t].pc = "done"
        /\ task[t].via = "fallback"
        /\ LET entry == EntryOf(db, task[t].routed.v)
           IN  /\ entry.some
               /\ task[t].out = Some(ResponseOf(entry.v))
               /\ entry.v.timestamp + entry.v.validity < now

\* C37: a request has one result, returned when its task ends, and the
\* origin is sent at most one request for it: none when a stage of the
\* pipeline answers, one when the origin's outcome or the stale fallback
\* answers; a failed send and a response that is not 2xx lead to the stale
\* fallback at once, never to another send.
C37_OneOutcomeOneSend ==
    /\ [](LET cur == task["t1"]
          IN  /\ probe.v.requests <= 1
              /\ probe.v.outcomes <= 1
              /\ cur.pc \in {"ingest", "sent", "fork"} => probe.v.outcomes = 0
              /\ cur.pc = "done" => probe.v.outcomes = 1
              /\ cur.pc \in {"sent", "fork"} => probe.v.requests = 1
              /\ (cur.pc = "done"
                  /\ cur.via \in {"error", "reload", "clear", "status", "routes", "cache"})
                 => (cur.via = "error" /\ cur.routed.some) \/ probe.v.requests = 0
              /\ (cur.pc = "done" /\ cur.via \in {"fallback", "origin"})
                 => probe.v.requests = 1)
    /\ [][ /\ ( /\ task["t1"].pc = "sent"
                /\ task'["t1"] # task["t1"]
                /\ ~(task'["t1"].response.some /\ Is2xx(task'["t1"].response.v.status)) )
              => /\ task'["t1"].pc = "done"
                 /\ task'["t1"].via = "fallback"
           /\ ( /\ task["t1"].pc = "done"
                /\ task'["t1"].pc # "ingest" )
              => task'["t1"] = task["t1"]
         ]_vars

\* the origin failed for a request, which was answered by the stale
\* fallback after one send
C37_Witness ==
    /\ task["t1"].pc = "done"
    /\ task["t1"].via = "fallback"
    /\ ~task["t1"].response.some
    /\ task["t1"].out.some
    /\ Is2xx(task["t1"].out.v.status)
    /\ probe = Some([requests |-> 1, outcomes |-> 1])

\* C38: while the proxy runs, every reload signal a request publishes waits
\* in the channel until the reload task takes it, and the task makes one
\* load attempt for each signal, one after the other, also after a load
\* that failed: the signals published are those waiting plus those
\* attempted, and the n-th signal published leads to the n-th attempt.
C38_SignalsConsumed ==
    /\ [](probe.v.published = probe.v.attempts + signals)
    /\ [][probe.v.attempts' # probe.v.attempts
            => /\ probe.v.attempts' = probe.v.attempts + 1
               /\ signals' = signals - 1]_vars
    /\ \A n \in 1..MaxPublished :
        (probe.v.published >= n) ~> (probe.v.attempts >= n)

\* two signals waited at once, the load for the first failed and the task
\* went on to take the others: three signals, three attempts
C38_Witness ==
    /\ probe.v.published = 3
    /\ probe.v.attempts = 3
    /\ probe.v.failed >= 1
    /\ signals = 0

\* the places of a test in its wrapper from which its body has not started
BeforeBody == {"start", "before_all", "before_each"}

\* the places of a test in its wrapper after its decrement of REMAINING_TESTS
Decremented == {"assert", "passed", "failed"}

\* C39: in a module annotated with test_callbacks, whatever the interleaving
\* of the concurrently running tests, before_all runs exactly once and has
\* completed before the body of any test starts, before_each runs before
\* every test body and after_each after it, also after a body that panics.
C39_CallbacksAroundBodies ==
    LET h == probe.v
    IN  /\ h.calls.before_all <= 1
        /\ \A i \in TestsOf(h) :
            LET t == h.test[i]
            IN  /\ t.pc \notin BeforeBody =>
                    /\ h.BEFORE_ALL_CALL = "done"
                    /\ h.calls.before_all = 1
                    /\ t.before_each = 1
                /\ t.pc \in BeforeBody => t.before_each = 0
                /\ t.pc \in BeforeBody \cup {"body", "after_each"} =>
                    t.after_each = 0
                /\ t.pc \notin BeforeBody \cup {"body", "after_each"} =>
                    t.after_each = 1

\* a test whose body panicked has had its after_each and has failed, while
\* the test that ran before_all is at its own body
C39_Witness ==
    LET h == probe.v
    IN  \E i, j \in TestsOf(h) :
            /\ i # j
            /\ h.by.before_all = j
            /\ h.test[j].pc = "body"
            /\ h.test[i].pc = "failed"
            /\ ~h.test[i].result
            /\ h.test[i].before_each = 1
            /\ h.test[i].after_each = 1

\* TEST_COUNT is the number of functions of the module with an attribute
\* whose path has the segment `test`; after_all is called at most once, and
\* only when every test has had its body and its after_each
AfterAllAfterEveryTest(h) ==
    /\ h.TEST_COUNT = Cardinality({i \in DOMAIN h.items :
            \E attr \in h.items[i].attrs :
                \E k \in DOMAIN attr : attr[k] = "test"})
    /\ h.calls.after_all <= 1
    /\ \A i \in TestsOf(h) :
        h.test[i].pc = "after_all" \/ h.calls.after_all = 1 =>
            \A j \in TestsOf(h) :
                /\ h.test[j].before_each = 1
                /\ h.test[j].after_each = 1
    /\ Len(h.finished) = h.TEST_COUNT => h.calls.after_all = 1

=============================================================================
